---- MODULE Spec2Model ----
(***************************************************************************)
(* CookShare REST API (Express routers over a MySQL schema).               *)
(* The state is the content of the tables of schema.sql plus the last      *)
(* request received and the last response sent; every route handler is an  *)
(* action, every SQL statement an operator on tables.                      *)
(***************************************************************************)
EXTENDS Integers, Sequences, FiniteSets, TLC

\* ---------------------------------------------------------------- bounds
MaxUsuario == 3
MaxSesion == 3
MaxReceta == 3
MaxCategoria == 3
MaxIngrediente == 3
MaxPaso == 3
MaxValoracion == 3
MaxSuscripcion == 2
MaxNow == 2
MaxPeticion == 12
MaxHandler == 2

\* ------------------------------------------------- encodings of JS / SQL
\* SQL NULL and JS undefined (mysql2 binds undefined as NULL) in a string
\* column and in an integer column.
NULL == "NULL"
NullInt == 0 - 1

\* JS truthiness of a string / of a number, as used by the `!x` validations.
FalsyStr(s) == s = NULL \/ s = ""
FalsyInt(n) == n = NullInt \/ n = 0

\* ------------------------------------------------------------ value sets
Emails == {"melani@example.com", "fatima@example.com", "nuevo@example.com"}
Passwords == {"password123", "secreta"}
TiposUsuario == {"publico", "premium"}

\* bcrypt.hash(data, saltRounds): a one-way function into "$2b$10$..."
\* strings; the empty string is hashed like any other string.
BcryptHash(p) ==
    CASE p = "password123" -> "$2b$10$E.qf/dC.6n"
      [] p = "secreta"     -> "$2b$10$k9Xw3.uUot"
      [] p = ""            -> "$2b$10$empty.hash"
      [] OTHER             -> "$2b$10$other.hash"

\* bcrypt.compare(data, hash)
BcryptCompare(p, h) == BcryptHash(p) = h

Hashes == {BcryptHash(p) : p \in Passwords \cup {""}}

VARIABLES
    Usuarios,          \* id_usuario -> row
    Sesiones,          \* id_sesion -> row
    Categorias,        \* id_categoria -> row
    Recetas,           \* id_receta -> row
    Autores_Receta,    \* set of rows, key (id_receta, id_usuario)
    Ingredientes,      \* id_ingrediente -> row
    Receta_Ingrediente,\* set of rows, key (id_receta, id_ingrediente)
    Pasos,             \* id_paso -> row
    Valoraciones,      \* id_valoracion -> row
    Suscripciones,     \* id_suscripcion -> row
    auto,              \* AUTO_INCREMENT counter of every table
    now,               \* the engine's clock, NOW() / CURRENT_TIMESTAMP
    login,             \* the login handler suspended between its two queries
    req,               \* the last request received
    res,               \* the last response sent
    pool,              \* the connection pool of db.js
    handlers           \* the handler invocations in flight

tables == <<Usuarios, Sesiones, Categorias, Recetas, Autores_Receta,
            Ingredientes, Receta_Ingrediente, Pasos, Valoraciones,
            Suscripciones, auto>>
vars == <<Usuarios, Sesiones, Categorias, Recetas, Autores_Receta,
          Ingredientes, Receta_Ingrediente, Pasos, Valoraciones,
          Suscripciones, auto, now, login, req, res, pool, handlers>>

\* ------------------------------------------------------------ seed data
\* The data-set of schema.sql ("DATOS DE PRUEBA"), abridged to its first
\* block: two users, their sessions, two recipes and their dependants.
\* BOOLEAN columns are TINYINT(1): 1, 0 or NULL.
SeedHash == "$2b$10$E.qf/dC.6n"

\* A handler that has not been invoked.
HandlerIdle ==
    [op |-> "none", pc |-> "idle", arg |-> NullInt, result |-> NullInt, sent |-> <<>>]

Init ==
    /\ Usuarios = (1 :> [nombre |-> "Melani", email |-> "melani@example.com",
                         contrasena |-> SeedHash, tipo_usuario |-> "publico"])
               @@ (2 :> [nombre |-> "Fatima", email |-> "fatima@example.com",
                         contrasena |-> SeedHash, tipo_usuario |-> "premium"])
    /\ Sesiones = (1 :> [id_usuario |-> 1, fecha_inicio |-> 1, fecha_cierre |-> NullInt])
               @@ (2 :> [id_usuario |-> 2, fecha_inicio |-> 1, fecha_cierre |-> NullInt])
    /\ Categorias = (1 :> [nombre |-> "Cena"]) @@ (2 :> [nombre |-> "Postre"])
    /\ Recetas = (1 :> [titulo |-> "Tacos al Pastor", es_publica |-> 1,
                        es_premium |-> 0, categoria_id |-> 1, autor_id |-> 1])
              @@ (2 :> [titulo |-> "Postre Gourmet", es_publica |-> 0,
                        es_premium |-> 1, categoria_id |-> 2, autor_id |-> 2])
    /\ Autores_Receta = {[id_receta |-> 1, id_usuario |-> 2,
                          rol |-> "colaborador", permiso_modificar |-> 1]}
    /\ Ingredientes = (1 :> [nombre |-> "Pina"]) @@ (2 :> [nombre |-> "Crema"])
    /\ Receta_Ingrediente = {[id_receta |-> 1, id_ingrediente |-> 1, cantidad |-> 3],
                             [id_receta |-> 2, id_ingrediente |-> 2, cantidad |-> 100]}
    /\ Pasos = (1 :> [id_receta |-> 1, numero_paso |-> 1, descripcion |-> "Cortar"])
            @@ (2 :> [id_receta |-> 2, numero_paso |-> 1, descripcion |-> "Mezclar"])
    /\ Valoraciones = (1 :> [id_receta |-> 1, id_usuario |-> 2, puntuacion |-> 5,
                             fecha_valoracion |-> 1])
                   @@ (2 :> [id_receta |-> 2, id_usuario |-> 1, puntuacion |-> 4,
                             fecha_valoracion |-> 1])
    /\ Suscripciones = (1 :> [id_usuario |-> 2, fecha_fin |-> 2, monto |-> 99])
    /\ auto = [Usuarios |-> 3, Sesiones |-> 3, Categorias |-> 3, Recetas |-> 3,
               Ingredientes |-> 3, Pasos |-> 3, Valoraciones |-> 3,
               Suscripciones |-> 2]
    /\ now = 1
    /\ login = [pc |-> "idle", id_usuario |-> NullInt]
    /\ req = [op |-> "none"]
    /\ res = [op |-> "none", status |-> 0, body |-> <<>>]
    /\ pool = [held |-> {}, queue |-> <<>>, failed |-> {}, next |-> 1]
    /\ handlers = [h \in 1 .. MaxHandler |-> HandlerIdle]


\* ------------------------------------------------------- storage engine
\* DELETE of the rows with the given keys.
Without(T, ids) == [k \in DOMAIN T \ ids |-> T[k]]

\* HTTP response: status and the JSON body, a sequence of JSON objects (an
\* object response is a sequence of one).
Respond(op, status, body) == [op |-> op, status |-> status, body |-> body]

\* Ascending sequence of a finite set of integers (primary-key order).
RECURSIVE SeqOf(_)
SeqOf(S) ==
    IF S = {} THEN <<>>
    ELSE LET m == CHOOSE x \in S : \A y \in S : x <= y
         IN <<m>> \o SeqOf(S \ {m})

\* The engine's clock advances.
Tick ==
    /\ now < MaxNow
    /\ now' = now + 1
    /\ UNCHANGED <<tables, login, req, res>>
    /\ UNCHANGED <<pool, handlers>>

\* ------------------------------------------------------------- sesiones
\* SELECT * FROM Usuarios WHERE email = ?
SelectUsuariosByEmail(email) == {u \in DOMAIN Usuarios : Usuarios[u].email = email}

\* A mismatch answer that names the cause.
LoginMismatchResponse_Leak ==
    Respond("login", 401, <<[error |-> "Contrasena incorrecta"]>>)

\* The two 401 answers of the login handler, one literal per branch.
LoginNoUserResponse == Respond("login", 401, <<[error |-> "Credenciales invalidas"]>>)
LoginMismatchResponse == Respond("login", 401, <<[error |-> "Credenciales invalidas"]>>)

\* POST /sesiones/login, up to its last await: validation, lookup, compare.
\* Returns the response sent, or the user found when the handler goes on.
LoginCheck(email, contrasena) ==
    IF FalsyStr(email) \/ FalsyStr(contrasena)
    THEN [done |-> TRUE, id_usuario |-> NullInt,
          res |-> Respond("login", 400, <<[error |-> "El email y la contrasena son requeridos"]>>)]
    ELSE LET users == SelectUsuariosByEmail(email) IN
         IF users = {}
         THEN [done |-> TRUE, id_usuario |-> NullInt, res |-> LoginNoUserResponse]
         ELSE LET u == CHOOSE x \in users : \A y \in users : x <= y IN
              IF ~BcryptCompare(contrasena, Usuarios[u].contrasena)
              THEN [done |-> TRUE, id_usuario |-> NullInt, res |-> LoginMismatchResponse]
              ELSE [done |-> FALSE, id_usuario |-> u, res |-> res]

LoginQuery(email, contrasena) ==
    /\ login.pc = "idle"
    /\ auto.Sesiones <= MaxSesion
    /\ req' = [op |-> "login", email |-> email, contrasena |-> contrasena]
    /\ LET r == LoginCheck(email, contrasena) IN
       IF r.done
       THEN /\ res' = r.res
            /\ UNCHANGED login
       ELSE /\ login' = [pc |-> "insert", id_usuario |-> r.id_usuario]
            /\ UNCHANGED res
    /\ UNCHANGED <<tables, now>>
    /\ UNCHANGED <<pool, handlers>>

\* An INSERT that stamps the end time as well as the start time.
InsertSesion_Closed(id_usuario) ==
    Sesiones @@ (auto.Sesiones :> [id_usuario |-> id_usuario,
                                   fecha_inicio |-> now,
                                   fecha_cierre |-> now])

\* INSERT INTO Sesiones (id_usuario) VALUES (?): the new table.
InsertSesion(id_usuario) ==
    Sesiones @@ (auto.Sesiones :> [id_usuario |-> id_usuario,
                                   fecha_inicio |-> now,
                                   fecha_cierre |-> NullInt])

\* The INSERT on a Sesiones table without its foreign key.
LoginInsert_NoForeignKey ==
    /\ login.pc = "insert"
    /\ login' = [pc |-> "idle", id_usuario |-> NullInt]
    /\ Sesiones' = InsertSesion(login.id_usuario)
    /\ auto' = [auto EXCEPT !.Sesiones = @ + 1]
    /\ res' = Respond("login", 201,
                 <<[id_sesion |-> auto.Sesiones, id_usuario |-> login.id_usuario,
                    mensaje |-> "Sesion iniciada"]>>)
    /\ UNCHANGED <<Usuarios, Categorias, Recetas, Autores_Receta, Ingredientes,
                   Receta_Ingrediente, Pasos, Valoraciones, Suscripciones,
                   now, req>>
    /\ UNCHANGED <<pool, handlers>>

\* POST /sesiones/login, after the compare: the INSERT and the answer.
LoginInsert ==
    /\ login.pc = "insert"
    /\ login' = [pc |-> "idle", id_usuario |-> NullInt]
    /\ IF login.id_usuario \in DOMAIN Usuarios
       THEN /\ Sesiones' = InsertSesion(login.id_usuario)
            /\ auto' = [auto EXCEPT !.Sesiones = @ + 1]
            /\ res' = Respond("login", 201,
                         <<[id_sesion |-> auto.Sesiones,
                            id_usuario |-> login.id_usuario,
                            mensaje |-> "Sesion iniciada"]>>)
       ELSE /\ res' = Respond("login", 500, <<[error |-> "ER_NO_REFERENCED_ROW_2"]>>)
            /\ UNCHANGED <<Sesiones, auto>>
    /\ UNCHANGED <<Usuarios, Categorias, Recetas, Autores_Receta, Ingredientes,
                   Receta_Ingrediente, Pasos, Valoraciones, Suscripciones,
                   now, req>>
    /\ UNCHANGED <<pool, handlers>>

\* The UPDATE without its `AND fecha_cierre IS NULL`.
LogoutMatched_NoActiveCheck(id_sesion) ==
    {s \in DOMAIN Sesiones : s = id_sesion}

\* UPDATE Sesiones SET fecha_cierre = NOW()
\*   WHERE id_sesion = ? AND fecha_cierre IS NULL: the rows it matches.
LogoutMatched(id_sesion) ==
    {s \in DOMAIN Sesiones : s = id_sesion /\ Sesiones[s].fecha_cierre = NullInt}

\* An UPDATE that stamps the addressed row whether or not it is closed.
LogoutUpdate_Restamp(id_sesion) ==
    [s \in DOMAIN Sesiones |->
        IF s = id_sesion
        THEN [Sesiones[s] EXCEPT !.fecha_cierre = now]
        ELSE Sesiones[s]]

\* ... and the table it leaves.
LogoutUpdate(id_sesion) ==
    [s \in DOMAIN Sesiones |->
        IF s \in LogoutMatched(id_sesion)
        THEN [Sesiones[s] EXCEPT !.fecha_cierre = now]
        ELSE Sesiones[s]]

\* POST /sesiones/logout
Logout(id_sesion) ==
    /\ req' = [op |-> "logout", id |-> id_sesion]
    /\ IF FalsyInt(id_sesion)
       THEN /\ res' = Respond("logout", 400, <<[error |-> "El id_sesion es requerido"]>>)
            /\ UNCHANGED Sesiones
       ELSE /\ Sesiones' = LogoutUpdate(id_sesion)
            /\ IF Cardinality(LogoutMatched(id_sesion)) = 0
               THEN res' = Respond("logout", 404,
                              <<[mensaje |-> "La sesion no existe o ya estaba cerrada"]>>)
               ELSE res' = Respond("logout", 200,
                              <<[mensaje |-> "Sesion cerrada correctamente"]>>)
    /\ UNCHANGED <<Usuarios, Categorias, Recetas, Autores_Receta, Ingredientes,
                   Receta_Ingrediente, Pasos, Valoraciones, Suscripciones,
                   auto, now, login>>
    /\ UNCHANGED <<pool, handlers>>


\* ------------------------------------------------------------- usuarios
\* SELECT * FROM Usuarios, as the list handler's query.
SelectUsuarios_Star ==
    LET ids == SeqOf(DOMAIN Usuarios) IN
    [i \in 1 .. Len(ids) |->
        [id_usuario |-> ids[i],
         nombre |-> Usuarios[ids[i]].nombre,
         email |-> Usuarios[ids[i]].email,
         contrasena |-> Usuarios[ids[i]].contrasena,
         tipo_usuario |-> Usuarios[ids[i]].tipo_usuario]]

\* GET /usuarios:
\* SELECT id_usuario, nombre, email, tipo_usuario, fecha_registro FROM Usuarios
SelectUsuarios ==
    LET ids == SeqOf(DOMAIN Usuarios) IN
    [i \in 1 .. Len(ids) |->
        [id_usuario |-> ids[i],
         nombre |-> Usuarios[ids[i]].nombre,
         email |-> Usuarios[ids[i]].email,
         tipo_usuario |-> Usuarios[ids[i]].tipo_usuario]]

UsuariosGet ==
    /\ req' = [op |-> "usuarios.get"]
    /\ res' = Respond("usuarios.get", 200, SelectUsuarios)
    /\ UNCHANGED <<tables, now, login>>
    /\ UNCHANGED <<pool, handlers>>

\* The constraints of a table whose email column is not UNIQUE.
UsuariosError_NoUnique(id, nombre, email, contrasena, tipo_usuario) ==
    IF nombre = NULL \/ email = NULL \/ contrasena = NULL
    THEN "ER_BAD_NULL_ERROR"
    ELSE IF tipo_usuario \notin TiposUsuario \cup {NULL}
    THEN "WARN_DATA_TRUNCATED"
    ELSE ""

\* The column constraints of Usuarios (strict SQL mode) on a row written
\* under key id: the engine error, or "" when the row is accepted.
UsuariosError(id, nombre, email, contrasena, tipo_usuario) ==
    IF nombre = NULL \/ email = NULL \/ contrasena = NULL
    THEN "ER_BAD_NULL_ERROR"
    ELSE IF tipo_usuario \notin TiposUsuario \cup {NULL}
    THEN "WARN_DATA_TRUNCATED"
    ELSE IF \E u \in DOMAIN Usuarios \ {id} : Usuarios[u].email = email
    THEN "ER_DUP_ENTRY"
    ELSE ""

\* A create handler that stores what the caller sent.
PostContrasena_Plain(contrasena) == contrasena

\* The value the create handler stores in Usuarios.contrasena.
PostContrasena(contrasena) == BcryptHash(contrasena)

\* POST /usuarios
UsuariosPost(nombre, email, contrasena, tipo_usuario) ==
    /\ auto.Usuarios <= MaxUsuario
    /\ req' = [op |-> "usuarios.post", email |-> email, contrasena |-> contrasena]
    /\ IF contrasena = NULL
       THEN \* bcrypt.hash(undefined, 10) rejects
            /\ res' = Respond("usuarios.post", 500,
                         <<[error |-> "data and salt arguments required"]>>)
            /\ UNCHANGED <<Usuarios, auto>>
       ELSE LET hash == PostContrasena(contrasena)
                err == UsuariosError(auto.Usuarios, nombre, email, hash, tipo_usuario)
            IN IF err # ""
               THEN /\ res' = Respond("usuarios.post", 500, <<[error |-> err]>>)
                    /\ UNCHANGED <<Usuarios, auto>>
               ELSE /\ Usuarios' = Usuarios @@ (auto.Usuarios :>
                           [nombre |-> nombre, email |-> email,
                            contrasena |-> hash, tipo_usuario |-> tipo_usuario])
                    /\ auto' = [auto EXCEPT !.Usuarios = @ + 1]
                    /\ res' = Respond("usuarios.post", 201,
                                 <<[id |-> auto.Usuarios, nombre |-> nombre,
                                    email |-> email, tipo_usuario |-> tipo_usuario]>>)
    /\ UNCHANGED <<Sesiones, Categorias, Recetas, Autores_Receta, Ingredientes,
                   Receta_Ingrediente, Pasos, Valoraciones, Suscripciones,
                   now, login>>
    /\ UNCHANGED <<pool, handlers>>

\* An update handler that tests `contrasena !== undefined`: it hashes the
\* empty string over the stored hash.
PutContrasena_Clobber(old, contrasena) ==
    IF contrasena # NULL THEN BcryptHash(contrasena) ELSE old

\* The value of Usuarios.contrasena after the update handler has run on a
\* row holding `old`: the hash of a supplied password, else the old value.
PutContrasena(old, contrasena) ==
    IF ~FalsyStr(contrasena) THEN BcryptHash(contrasena) ELSE old

\* PUT /usuarios/:id
UsuariosPut(id, nombre, email, tipo_usuario, contrasena) ==
    /\ req' = [op |-> "usuarios.put", id |-> id, contrasena |-> contrasena]
    /\ IF id \notin DOMAIN Usuarios
       THEN \* the UPDATE matches no row
            /\ res' = Respond("usuarios.put", 200,
                         <<[message |-> "Usuario actualizado correctamente"]>>)
            /\ UNCHANGED Usuarios
       ELSE LET hash == PutContrasena(Usuarios[id].contrasena, contrasena)
                err == UsuariosError(id, nombre, email, hash, tipo_usuario)
            IN IF err # ""
               THEN /\ res' = Respond("usuarios.put", 500, <<[error |-> err]>>)
                    /\ UNCHANGED Usuarios
               ELSE /\ Usuarios' = [Usuarios EXCEPT ![id] =
                           [nombre |-> nombre, email |-> email,
                            contrasena |-> hash, tipo_usuario |-> tipo_usuario]]
                    /\ res' = Respond("usuarios.put", 200,
                                 <<[message |-> "Usuario actualizado correctamente"]>>)
    /\ UNCHANGED <<Sesiones, Categorias, Recetas, Autores_Receta, Ingredientes,
                   Receta_Ingrediente, Pasos, Valoraciones, Suscripciones,
                   auto, now, login>>
    /\ UNCHANGED <<pool, handlers>>

\* A foreign key that restricts nothing.
UsuarioReferenced_Never(id) == FALSE

\* FOREIGN KEY (autor_id) REFERENCES Usuarios: no ON DELETE clause, RESTRICT.
UsuarioReferenced(id) == \E r \in DOMAIN Recetas : Recetas[r].autor_id = id

\* DELETE /usuarios/:id
UsuariosDelete(id) ==
    /\ req' = [op |-> "usuarios.delete", id |-> id]
    /\ IF UsuarioReferenced(id)
       THEN /\ res' = Respond("usuarios.delete", 500,
                         <<[error |-> "ER_ROW_IS_REFERENCED_2"]>>)
            /\ UNCHANGED <<Usuarios, Sesiones, Autores_Receta, Valoraciones,
                           Suscripciones>>
       ELSE \* the row goes, and ON DELETE CASCADE removes its dependants
            /\ Usuarios' = Without(Usuarios, {id})
            /\ Sesiones' = Without(Sesiones,
                   {s \in DOMAIN Sesiones : Sesiones[s].id_usuario = id})
            /\ Autores_Receta' = {a \in Autores_Receta : a.id_usuario # id}
            /\ Valoraciones' = Without(Valoraciones,
                   {v \in DOMAIN Valoraciones : Valoraciones[v].id_usuario = id})
            /\ Suscripciones' = Without(Suscripciones,
                   {x \in DOMAIN Suscripciones : Suscripciones[x].id_usuario = id})
            /\ res' = Respond("usuarios.delete", 200,
                         <<[message |-> "Usuario eliminado correctamente"]>>)
    /\ UNCHANGED <<Categorias, Recetas, Ingredientes, Receta_Ingrediente, Pasos,
                   auto, now, login>>
    /\ UNCHANGED <<pool, handlers>>


\* -------------------------------------------------------------- recetas
\* The rows of `Recetas r JOIN Categorias c ON r.categoria_id = c.id_categoria
\* JOIN Usuarios u ON r.autor_id = u.id_usuario`: inner joins, so a recipe
\* without its category or its author is in no row.
RecetasJoined ==
    {r \in DOMAIN Recetas : /\ Recetas[r].categoria_id \in DOMAIN Categorias
                            /\ Recetas[r].autor_id \in DOMAIN Usuarios}

\* The select list of the three recipe queries.
RecetaProjection(r) ==
    [id_receta |-> r,
     titulo |-> Recetas[r].titulo,
     es_publica |-> Recetas[r].es_publica,
     es_premium |-> Recetas[r].es_premium,
     categoria |-> Categorias[Recetas[r].categoria_id].nombre,
     autor |-> Usuarios[Recetas[r].autor_id].nombre]

\* GET /recetas
RecetasGet ==
    /\ req' = [op |-> "recetas.get"]
    /\ LET ids == SeqOf(RecetasJoined) IN
       res' = Respond("recetas.get", 200,
                 [i \in 1 .. Len(ids) |-> RecetaProjection(ids[i])])
    /\ UNCHANGED <<tables, now, login>>
    /\ UNCHANGED <<pool, handlers>>

\* GET /recetas/:id
RecetasGetById(id) ==
    /\ req' = [op |-> "recetas.getById", id |-> id]
    /\ IF id \notin RecetasJoined
       THEN res' = Respond("recetas.getById", 404, <<[mensaje |-> "Receta no encontrada"]>>)
       ELSE res' = Respond("recetas.getById", 200, <<RecetaProjection(id)>>)
    /\ UNCHANGED <<tables, now, login>>
    /\ UNCHANGED <<pool, handlers>>

\* The letters of the texts of the model, folded to lower case as the
\* utf8mb4_unicode_ci collation compares them.
Letras(text) ==
    CASE text = "Tacos al Pastor" -> <<"t","a","c","o","s"," ","a","l"," ","p","a","s","t","o","r">>
      [] text = "Postre Gourmet"  -> <<"p","o","s","t","r","e"," ","g","o","u","r","m","e","t">>
      [] text = "Pina"            -> <<"p","i","n","a">>
      [] text = "Crema"           -> <<"c","r","e","m","a">>
      [] text = "pi"              -> <<"p","i">>
      [] text = "pas"             -> <<"p","a","s">>
      [] text = "e"               -> <<"e">>
      [] text = "a"               -> <<"a">>
      [] OTHER                    -> <<"?">>

\* text LIKE '%term%'; NULL LIKE ... is not true.
Like(text, term) ==
    /\ text # NULL
    /\ LET s == Letras(text)
           t == Letras(term)
       IN \E i \in 1 .. Len(s) - Len(t) + 1 : SubSeq(s, i, i + Len(t) - 1) = t

\* The joined rows of the search query that pass its WHERE clause, as
\* (recipe, ingredient) pairs; NullInt stands for the NULLs of a LEFT JOIN
\* that found no link.
BuscarRows(termino) ==
    LET links(r) == {ri \in Receta_Ingrediente : ri.id_receta = r}
        pairs == {p \in RecetasJoined \X (DOMAIN Ingredientes \cup {NullInt}) :
                    \/ \E ri \in links(p[1]) : ri.id_ingrediente = p[2]
                    \/ (links(p[1]) = {} /\ p[2] = NullInt)}
    IN {p \in pairs :
          \/ Like(Recetas[p[1]].titulo, termino)
          \/ (p[2] # NullInt /\ Like(Ingredientes[p[2]].nombre, termino))}

\* GET /recetas/buscar/:termino: SELECT DISTINCT keeps one copy of each
\* projected row.
RecetasBuscar(termino) ==
    /\ req' = [op |-> "recetas.buscar", termino |-> termino]
    /\ LET ids == SeqOf({p[1] : p \in BuscarRows(termino)}) IN
       res' = Respond("recetas.buscar", 200,
                 [i \in 1 .. Len(ids) |-> RecetaProjection(ids[i])])
    /\ UNCHANGED <<tables, now, login>>
    /\ UNCHANGED <<pool, handlers>>

\* The constraints of Recetas on a written row: NOT NULL titulo and the two
\* foreign keys (a NULL reference is accepted).
RecetasError(titulo, categoria_id, autor_id) ==
    IF titulo = NULL
    THEN "ER_BAD_NULL_ERROR"
    ELSE IF \/ (categoria_id # NullInt /\ categoria_id \notin DOMAIN Categorias)
            \/ (autor_id # NullInt /\ autor_id \notin DOMAIN Usuarios)
    THEN "ER_NO_REFERENCED_ROW_2"
    ELSE ""

\* POST /recetas: no required-field test; the eight values go to the INSERT
\* as sent, an absent one as NULL.
RecetasPost(titulo, es_publica, es_premium, categoria_id, autor_id) ==
    /\ auto.Recetas <= MaxReceta
    /\ req' = [op |-> "recetas.post"]
    /\ IF RecetasError(titulo, categoria_id, autor_id) # ""
       THEN /\ res' = Respond("recetas.post", 500,
                         <<[error |-> RecetasError(titulo, categoria_id, autor_id)]>>)
            /\ UNCHANGED <<Recetas, auto>>
       ELSE /\ Recetas' = Recetas @@ (auto.Recetas :>
                   [titulo |-> titulo, es_publica |-> es_publica,
                    es_premium |-> es_premium, categoria_id |-> categoria_id,
                    autor_id |-> autor_id])
            /\ auto' = [auto EXCEPT !.Recetas = @ + 1]
            /\ res' = Respond("recetas.post", 201,
                         <<[id_receta |-> auto.Recetas, titulo |-> titulo,
                            es_publica |-> es_publica, es_premium |-> es_premium,
                            categoria_id |-> categoria_id, autor_id |-> autor_id]>>)
    /\ UNCHANGED <<Usuarios, Sesiones, Categorias, Autores_Receta, Ingredientes,
                   Receta_Ingrediente, Pasos, Valoraciones, Suscripciones,
                   now, login>>
    /\ UNCHANGED <<pool, handlers>>

\* PUT /recetas/:id
RecetasPut(id, titulo, es_publica, es_premium, categoria_id, autor_id) ==
    /\ req' = [op |-> "recetas.put", id |-> id]
    /\ IF id \in DOMAIN Recetas /\ RecetasError(titulo, categoria_id, autor_id) # ""
       THEN /\ res' = Respond("recetas.put", 500,
                         <<[error |-> RecetasError(titulo, categoria_id, autor_id)]>>)
            /\ UNCHANGED Recetas
       ELSE /\ Recetas' = [r \in DOMAIN Recetas |->
                             IF r = id
                             THEN [titulo |-> titulo, es_publica |-> es_publica,
                                   es_premium |-> es_premium,
                                   categoria_id |-> categoria_id,
                                   autor_id |-> autor_id]
                             ELSE Recetas[r]]
            /\ res' = Respond("recetas.put", 200,
                         <<[mensaje |-> "Receta actualizada correctamente"]>>)
    /\ UNCHANGED <<Usuarios, Sesiones, Categorias, Autores_Receta, Ingredientes,
                   Receta_Ingrediente, Pasos, Valoraciones, Suscripciones,
                   auto, now, login>>
    /\ UNCHANGED <<pool, handlers>>

\* A delete on a schema whose Pasos and Valoraciones foreign keys neither
\* cascade nor restrict.
RecetasDelete_NoCascade(id) ==
    /\ req' = [op |-> "recetas.delete", id |-> id]
    /\ Recetas' = Without(Recetas, {id})
    /\ Autores_Receta' = {a \in Autores_Receta : a.id_receta # id}
    /\ Receta_Ingrediente' = {ri \in Receta_Ingrediente : ri.id_receta # id}
    /\ res' = Respond("recetas.delete", 200,
                 <<[mensaje |-> "Receta eliminada correctamente"]>>)
    /\ UNCHANGED <<Usuarios, Sesiones, Categorias, Ingredientes, Suscripciones,
                   Pasos, Valoraciones, auto, now, login>>
    /\ UNCHANGED <<pool, handlers>>

\* DELETE /recetas/:id, with the ON DELETE CASCADE of the four tables that
\* reference Recetas.
RecetasDelete(id) ==
    /\ req' = [op |-> "recetas.delete", id |-> id]
    /\ Recetas' = Without(Recetas, {id})
    /\ Autores_Receta' = {a \in Autores_Receta : a.id_receta # id}
    /\ Receta_Ingrediente' = {ri \in Receta_Ingrediente : ri.id_receta # id}
    /\ Pasos' = Without(Pasos, {x \in DOMAIN Pasos : Pasos[x].id_receta = id})
    /\ Valoraciones' = Without(Valoraciones,
           {v \in DOMAIN Valoraciones : Valoraciones[v].id_receta = id})
    /\ res' = Respond("recetas.delete", 200,
                 <<[mensaje |-> "Receta eliminada correctamente"]>>)
    /\ UNCHANGED <<Usuarios, Sesiones, Categorias, Ingredientes, Suscripciones,
                   auto, now, login>>
    /\ UNCHANGED <<pool, handlers>>

\* ---------------------------------------------------------- link tables
\* No router writes Autores_Receta or Receta_Ingrediente: their rows come
\* from INSERT statements run on the engine, as the ones of the seed. The
\* answer of such a statement is the engine's packet, under status 0.

\* A table without the composite key.
AutoresRecetaDuplicate_Never(id_receta, id_usuario) == FALSE

\* PRIMARY KEY (id_receta, id_usuario): the key is already in the table.
AutoresRecetaDuplicate(id_receta, id_usuario) ==
    \E a \in Autores_Receta : a.id_receta = id_receta /\ a.id_usuario = id_usuario

\* INSERT INTO Autores_Receta (id_receta, id_usuario, rol, permiso_modificar)
\*   VALUES (?, ?, ?, ?)
AutoresRecetaInsert(id_receta, id_usuario, rol, permiso_modificar) ==
    /\ req' = [op |-> "Autores_Receta.insert", id_receta |-> id_receta,
               id_usuario |-> id_usuario, rol |-> rol,
               permiso_modificar |-> permiso_modificar]
    /\ IF id_receta \notin DOMAIN Recetas \/ id_usuario \notin DOMAIN Usuarios
       THEN /\ res' = Respond("Autores_Receta.insert", 0,
                         <<[error |-> "ER_NO_REFERENCED_ROW_2"]>>)
            /\ UNCHANGED Autores_Receta
       ELSE IF AutoresRecetaDuplicate(id_receta, id_usuario)
       THEN /\ res' = Respond("Autores_Receta.insert", 0, <<[error |-> "ER_DUP_ENTRY"]>>)
            /\ UNCHANGED Autores_Receta
       ELSE /\ Autores_Receta' = Autores_Receta \cup
                   {[id_receta |-> id_receta, id_usuario |-> id_usuario,
                     rol |-> rol, permiso_modificar |-> permiso_modificar]}
            /\ res' = Respond("Autores_Receta.insert", 0, <<[affectedRows |-> 1]>>)
    /\ UNCHANGED <<Usuarios, Sesiones, Categorias, Recetas, Ingredientes,
                   Receta_Ingrediente, Pasos, Valoraciones, Suscripciones,
                   auto, now, login>>
    /\ UNCHANGED <<pool, handlers>>

\* PRIMARY KEY (id_receta, id_ingrediente): the key is already in the table.
RecetaIngredienteDuplicate(id_receta, id_ingrediente) ==
    \E ri \in Receta_Ingrediente :
        ri.id_receta = id_receta /\ ri.id_ingrediente = id_ingrediente

\* INSERT INTO Receta_Ingrediente (id_receta, id_ingrediente, cantidad)
\*   VALUES (?, ?, ?)
RecetaIngredienteInsert(id_receta, id_ingrediente, cantidad) ==
    /\ req' = [op |-> "Receta_Ingrediente.insert", id_receta |-> id_receta,
               id_ingrediente |-> id_ingrediente, cantidad |-> cantidad]
    /\ IF id_receta \notin DOMAIN Recetas \/ id_ingrediente \notin DOMAIN Ingredientes
       THEN /\ res' = Respond("Receta_Ingrediente.insert", 0,
                         <<[error |-> "ER_NO_REFERENCED_ROW_2"]>>)
            /\ UNCHANGED Receta_Ingrediente
       ELSE IF RecetaIngredienteDuplicate(id_receta, id_ingrediente)
       THEN /\ res' = Respond("Receta_Ingrediente.insert", 0,
                         <<[error |-> "ER_DUP_ENTRY"]>>)
            /\ UNCHANGED Receta_Ingrediente
       ELSE /\ Receta_Ingrediente' = Receta_Ingrediente \cup
                   {[id_receta |-> id_receta, id_ingrediente |-> id_ingrediente,
                     cantidad |-> cantidad]}
            /\ res' = Respond("Receta_Ingrediente.insert", 0, <<[affectedRows |-> 1]>>)
    /\ UNCHANGED <<Usuarios, Sesiones, Categorias, Recetas, Autores_Receta,
                   Ingredientes, Pasos, Valoraciones, Suscripciones,
                   auto, now, login>>
    /\ UNCHANGED <<pool, handlers>>

\* ----------------------------------------------------------- categorias
\* GET /categorias/:id
CategoriasGetById(id) ==
    /\ req' = [op |-> "categorias.getById", id |-> id]
    /\ IF id \notin DOMAIN Categorias
       THEN res' = Respond("categorias.getById", 404,
                      <<[mensaje |-> "Categoria no encontrada"]>>)
       ELSE res' = Respond("categorias.getById", 200,
                      <<[id_categoria |-> id, nombre |-> Categorias[id].nombre]>>)
    /\ UNCHANGED <<tables, now, login>>
    /\ UNCHANGED <<pool, handlers>>

\* POST /categorias
CategoriasPost(nombre) ==
    /\ auto.Categorias <= MaxCategoria
    /\ req' = [op |-> "categorias.post"]
    /\ IF FalsyStr(nombre)
       THEN /\ res' = Respond("categorias.post", 400, <<[error |-> "El nombre es requerido"]>>)
            /\ UNCHANGED <<Categorias, auto>>
       ELSE /\ Categorias' = Categorias @@ (auto.Categorias :> [nombre |-> nombre])
            /\ auto' = [auto EXCEPT !.Categorias = @ + 1]
            /\ res' = Respond("categorias.post", 201,
                         <<[id |-> auto.Categorias, nombre |-> nombre]>>)
    /\ UNCHANGED <<Usuarios, Sesiones, Recetas, Autores_Receta, Ingredientes,
                   Receta_Ingrediente, Pasos, Valoraciones, Suscripciones,
                   now, login>>
    /\ UNCHANGED <<pool, handlers>>

\* PUT /categorias/:id
CategoriasPut(id, nombre) ==
    /\ req' = [op |-> "categorias.put", id |-> id]
    /\ IF FalsyStr(nombre)
       THEN /\ res' = Respond("categorias.put", 400, <<[error |-> "El nombre es requerido"]>>)
            /\ UNCHANGED Categorias
       ELSE /\ Categorias' = [c \in DOMAIN Categorias |->
                                IF c = id THEN [nombre |-> nombre] ELSE Categorias[c]]
            /\ res' = Respond("categorias.put", 200,
                         <<[mensaje |-> "Categoria actualizada correctamente"]>>)
    /\ UNCHANGED <<Usuarios, Sesiones, Recetas, Autores_Receta, Ingredientes,
                   Receta_Ingrediente, Pasos, Valoraciones, Suscripciones,
                   auto, now, login>>
    /\ UNCHANGED <<pool, handlers>>

\* FOREIGN KEY (categoria_id) REFERENCES Categorias: RESTRICT.
CategoriaReferenced(id) == \E r \in DOMAIN Recetas : Recetas[r].categoria_id = id

\* DELETE /categorias/:id
CategoriasDelete(id) ==
    /\ req' = [op |-> "categorias.delete", id |-> id]
    /\ IF CategoriaReferenced(id)
       THEN /\ res' = Respond("categorias.delete", 500,
                         <<[error |-> "ER_ROW_IS_REFERENCED_2"]>>)
            /\ UNCHANGED Categorias
       ELSE /\ Categorias' = Without(Categorias, {id})
            /\ res' = Respond("categorias.delete", 200,
                         <<[mensaje |-> "Categoria eliminada correctamente"]>>)
    /\ UNCHANGED <<Usuarios, Sesiones, Recetas, Autores_Receta, Ingredientes,
                   Receta_Ingrediente, Pasos, Valoraciones, Suscripciones,
                   auto, now, login>>
    /\ UNCHANGED <<pool, handlers>>

\* ---------------------------------------------------------------- pasos
\* A query without its ORDER BY: the rows in primary-key order.
OrderedPasos_ById(S) == {SeqOf(S)}

\* The orders `ORDER BY numero_paso` may give to the step rows S: every
\* arrangement ascending in numero_paso (SQL leaves the order of rows with
\* the same numero_paso to the engine).
OrderedPasos(S) ==
    {f \in [1 .. Cardinality(S) -> S] :
        /\ \A i, j \in 1 .. Cardinality(S) : f[i] = f[j] => i = j
        /\ \A i, j \in 1 .. Cardinality(S) :
              i < j => Pasos[f[i]].numero_paso <= Pasos[f[j]].numero_paso}

\* GET /pasos/receta/:id_receta
PasosGetByReceta(id_receta) ==
    /\ req' = [op |-> "pasos.getByReceta", id |-> id_receta]
    /\ \E ids \in OrderedPasos({x \in DOMAIN Pasos : Pasos[x].id_receta = id_receta}) :
          res' = Respond("pasos.getByReceta", 200,
                    [i \in 1 .. Len(ids) |->
                       [id_paso |-> ids[i],
                        id_receta |-> Pasos[ids[i]].id_receta,
                        numero_paso |-> Pasos[ids[i]].numero_paso,
                        descripcion |-> Pasos[ids[i]].descripcion]])
    /\ UNCHANGED <<tables, now, login>>
    /\ UNCHANGED <<pool, handlers>>

\* GET /pasos/:id_paso
PasosGetById(id_paso) ==
    /\ req' = [op |-> "pasos.getById", id |-> id_paso]
    /\ IF id_paso \notin DOMAIN Pasos
       THEN res' = Respond("pasos.getById", 404, <<[mensaje |-> "Paso no encontrado"]>>)
       ELSE res' = Respond("pasos.getById", 200,
                      <<[id_paso |-> id_paso,
                         id_receta |-> Pasos[id_paso].id_receta,
                         numero_paso |-> Pasos[id_paso].numero_paso,
                         descripcion |-> Pasos[id_paso].descripcion]>>)
    /\ UNCHANGED <<tables, now, login>>
    /\ UNCHANGED <<pool, handlers>>

\* POST /pasos
PasosPost(id_receta, numero_paso, descripcion) ==
    /\ auto.Pasos <= MaxPaso
    /\ req' = [op |-> "pasos.post"]
    /\ IF FalsyInt(id_receta) \/ FalsyInt(numero_paso) \/ FalsyStr(descripcion)
       THEN /\ res' = Respond("pasos.post", 400,
                         <<[error |-> "id_receta, numero_paso y descripcion son requeridos"]>>)
            /\ UNCHANGED <<Pasos, auto>>
       ELSE IF id_receta \notin DOMAIN Recetas
       THEN /\ res' = Respond("pasos.post", 500, <<[error |-> "ER_NO_REFERENCED_ROW_2"]>>)
            /\ UNCHANGED <<Pasos, auto>>
       ELSE /\ Pasos' = Pasos @@ (auto.Pasos :>
                   [id_receta |-> id_receta, numero_paso |-> numero_paso,
                    descripcion |-> descripcion])
            /\ auto' = [auto EXCEPT !.Pasos = @ + 1]
            /\ res' = Respond("pasos.post", 201,
                         <<[id |-> auto.Pasos, id_receta |-> id_receta,
                            numero_paso |-> numero_paso, descripcion |-> descripcion]>>)
    /\ UNCHANGED <<Usuarios, Sesiones, Categorias, Recetas, Autores_Receta,
                   Ingredientes, Receta_Ingrediente, Valoraciones, Suscripciones,
                   now, login>>
    /\ UNCHANGED <<pool, handlers>>

\* PUT /pasos/:id_paso
PasosPut(id_paso, numero_paso, descripcion) ==
    /\ req' = [op |-> "pasos.put", id |-> id_paso]
    /\ IF FalsyInt(numero_paso) \/ FalsyStr(descripcion)
       THEN /\ res' = Respond("pasos.put", 400,
                         <<[error |-> "numero_paso y descripcion son requeridos"]>>)
            /\ UNCHANGED Pasos
       ELSE /\ Pasos' = [x \in DOMAIN Pasos |->
                           IF x = id_paso
                           THEN [Pasos[x] EXCEPT !.numero_paso = numero_paso,
                                                 !.descripcion = descripcion]
                           ELSE Pasos[x]]
            /\ res' = Respond("pasos.put", 200,
                         <<[mensaje |-> "Paso actualizado correctamente"]>>)
    /\ UNCHANGED <<Usuarios, Sesiones, Categorias, Recetas, Autores_Receta,
                   Ingredientes, Receta_Ingrediente, Valoraciones, Suscripciones,
                   auto, now, login>>
    /\ UNCHANGED <<pool, handlers>>

\* DELETE /pasos/:id_paso
PasosDelete(id_paso) ==
    /\ req' = [op |-> "pasos.delete", id |-> id_paso]
    /\ Pasos' = Without(Pasos, {id_paso})
    /\ res' = Respond("pasos.delete", 200, <<[mensaje |-> "Paso eliminado correctamente"]>>)
    /\ UNCHANGED <<Usuarios, Sesiones, Categorias, Recetas, Autores_Receta,
                   Ingredientes, Receta_Ingrediente, Valoraciones, Suscripciones,
                   auto, now, login>>
    /\ UNCHANGED <<pool, handlers>>

\* --------------------------------------------------------- ingredientes
\* GET /ingredientes/:id
IngredientesGetById(id) ==
    /\ req' = [op |-> "ingredientes.getById", id |-> id]
    /\ IF id \notin DOMAIN Ingredientes
       THEN res' = Respond("ingredientes.getById", 404,
                      <<[mensaje |-> "Ingrediente no encontrado"]>>)
       ELSE res' = Respond("ingredientes.getById", 200,
                      <<[id_ingrediente |-> id, nombre |-> Ingredientes[id].nombre]>>)
    /\ UNCHANGED <<tables, now, login>>
    /\ UNCHANGED <<pool, handlers>>

\* POST /ingredientes
IngredientesPost(nombre) ==
    /\ auto.Ingredientes <= MaxIngrediente
    /\ req' = [op |-> "ingredientes.post"]
    /\ IF FalsyStr(nombre)
       THEN /\ res' = Respond("ingredientes.post", 400, <<[error |-> "El nombre es requerido"]>>)
            /\ UNCHANGED <<Ingredientes, auto>>
       ELSE /\ Ingredientes' = Ingredientes @@ (auto.Ingredientes :> [nombre |-> nombre])
            /\ auto' = [auto EXCEPT !.Ingredientes = @ + 1]
            /\ res' = Respond("ingredientes.post", 201,
                         <<[id |-> auto.Ingredientes, nombre |-> nombre]>>)
    /\ UNCHANGED <<Usuarios, Sesiones, Categorias, Recetas, Autores_Receta,
                   Receta_Ingrediente, Pasos, Valoraciones, Suscripciones,
                   now, login>>
    /\ UNCHANGED <<pool, handlers>>

\* PUT /ingredientes/:id
IngredientesPut(id, nombre) ==
    /\ req' = [op |-> "ingredientes.put", id |-> id]
    /\ IF FalsyStr(nombre)
       THEN /\ res' = Respond("ingredientes.put", 400, <<[error |-> "El nombre es requerido"]>>)
            /\ UNCHANGED Ingredientes
       ELSE /\ Ingredientes' = [i \in DOMAIN Ingredientes |->
                                  IF i = id THEN [nombre |-> nombre] ELSE Ingredientes[i]]
            /\ res' = Respond("ingredientes.put", 200,
                         <<[mensaje |-> "Ingrediente actualizado correctamente"]>>)
    /\ UNCHANGED <<Usuarios, Sesiones, Categorias, Recetas, Autores_Receta,
                   Receta_Ingrediente, Pasos, Valoraciones, Suscripciones,
                   auto, now, login>>
    /\ UNCHANGED <<pool, handlers>>

\* DELETE /ingredientes/:id, with the cascade to Receta_Ingrediente.
IngredientesDelete(id) ==
    /\ req' = [op |-> "ingredientes.delete", id |-> id]
    /\ Ingredientes' = Without(Ingredientes, {id})
    /\ Receta_Ingrediente' = {ri \in Receta_Ingrediente : ri.id_ingrediente # id}
    /\ res' = Respond("ingredientes.delete", 200,
                 <<[mensaje |-> "Ingrediente eliminado correctamente"]>>)
    /\ UNCHANGED <<Usuarios, Sesiones, Categorias, Recetas, Autores_Receta,
                   Pasos, Valoraciones, Suscripciones, auto, now, login>>
    /\ UNCHANGED <<pool, handlers>>

\* -------------------------------------------------------- suscripciones
\* GET /suscripciones/:id_suscripcion
SuscripcionesGetById(id_suscripcion) ==
    /\ req' = [op |-> "suscripciones.getById", id |-> id_suscripcion]
    /\ IF id_suscripcion \notin DOMAIN Suscripciones
       THEN res' = Respond("suscripciones.getById", 404,
                      <<[mensaje |-> "Suscripcion no encontrada"]>>)
       ELSE res' = Respond("suscripciones.getById", 200,
                      <<[id_suscripcion |-> id_suscripcion,
                         id_usuario |-> Suscripciones[id_suscripcion].id_usuario,
                         fecha_fin |-> Suscripciones[id_suscripcion].fecha_fin,
                         monto |-> Suscripciones[id_suscripcion].monto]>>)
    /\ UNCHANGED <<tables, now, login>>
    /\ UNCHANGED <<pool, handlers>>

\* The required-field test of the create handler.
SuscripcionesPostInvalid(id_usuario, fecha_fin, monto) ==
    FalsyInt(id_usuario) \/ FalsyInt(fecha_fin) \/ FalsyInt(monto)

\* A create handler that sends its INSERT before it tests the fields.
SuscripcionesPostQueries_First(id_usuario, fecha_fin, monto) == TRUE

\* Whether the create handler reaches its db.query: the `return` of the
\* required-field test leaves the handler before the try block.
SuscripcionesPostQueries(id_usuario, fecha_fin, monto) ==
    ~SuscripcionesPostInvalid(id_usuario, fecha_fin, monto)

\* POST /suscripciones
SuscripcionesPost(id_usuario, fecha_fin, monto) ==
    /\ auto.Suscripciones <= MaxSuscripcion
    /\ req' = [op |-> "suscripciones.post"]
    /\ IF /\ SuscripcionesPostQueries(id_usuario, fecha_fin, monto)
          /\ id_usuario = NullInt \/ id_usuario \in DOMAIN Usuarios
       THEN /\ Suscripciones' = Suscripciones @@ (auto.Suscripciones :>
                   [id_usuario |-> id_usuario, fecha_fin |-> fecha_fin,
                    monto |-> monto])
            /\ auto' = [auto EXCEPT !.Suscripciones = @ + 1]
       ELSE UNCHANGED <<Suscripciones, auto>>
    /\ IF SuscripcionesPostInvalid(id_usuario, fecha_fin, monto)
       THEN res' = Respond("suscripciones.post", 400,
                      <<[error |-> "id_usuario, fecha_fin y monto son requeridos"]>>)
       ELSE IF id_usuario \notin DOMAIN Usuarios
       THEN res' = Respond("suscripciones.post", 500,
                      <<[error |-> "ER_NO_REFERENCED_ROW_2"]>>)
       ELSE res' = Respond("suscripciones.post", 201,
                      <<[id |-> auto.Suscripciones, id_usuario |-> id_usuario,
                         fecha_fin |-> fecha_fin, monto |-> monto]>>)
    /\ UNCHANGED <<Usuarios, Sesiones, Categorias, Recetas, Autores_Receta,
                   Ingredientes, Receta_Ingrediente, Pasos, Valoraciones,
                   now, login>>
    /\ UNCHANGED <<pool, handlers>>

\* PUT /suscripciones/:id_suscripcion
SuscripcionesPut(id_suscripcion, fecha_fin, monto) ==
    /\ req' = [op |-> "suscripciones.put", id |-> id_suscripcion]
    /\ IF FalsyInt(fecha_fin) \/ FalsyInt(monto)
       THEN /\ res' = Respond("suscripciones.put", 400,
                         <<[error |-> "fecha_fin y monto son requeridos"]>>)
            /\ UNCHANGED Suscripciones
       ELSE /\ Suscripciones' = [x \in DOMAIN Suscripciones |->
                                   IF x = id_suscripcion
                                   THEN [Suscripciones[x] EXCEPT !.fecha_fin = fecha_fin,
                                                                 !.monto = monto]
                                   ELSE Suscripciones[x]]
            /\ res' = Respond("suscripciones.put", 200,
                         <<[mensaje |-> "Suscripcion actualizada correctamente"]>>)
    /\ UNCHANGED <<Usuarios, Sesiones, Categorias, Recetas, Autores_Receta,
                   Ingredientes, Receta_Ingrediente, Pasos, Valoraciones,
                   auto, now, login>>
    /\ UNCHANGED <<pool, handlers>>

\* DELETE /suscripciones/:id_suscripcion
SuscripcionesDelete(id_suscripcion) ==
    /\ req' = [op |-> "suscripciones.delete", id |-> id_suscripcion]
    /\ Suscripciones' = Without(Suscripciones, {id_suscripcion})
    /\ res' = Respond("suscripciones.delete", 200,
                 <<[mensaje |-> "Suscripcion eliminada correctamente"]>>)
    /\ UNCHANGED <<Usuarios, Sesiones, Categorias, Recetas, Autores_Receta,
                   Ingredientes, Receta_Ingrediente, Pasos, Valoraciones,
                   auto, now, login>>
    /\ UNCHANGED <<pool, handlers>>

\* --------------------------------------------------------- valoraciones
\* The rating rows in `ORDER BY fecha_valoracion DESC` order (rows of one
\* timestamp in primary-key order).
RECURSIVE OrderValoraciones(_)
OrderValoraciones(S) ==
    IF S = {} THEN <<>>
    ELSE LET m == CHOOSE x \in S : \A y \in S :
                     \/ Valoraciones[x].fecha_valoracion > Valoraciones[y].fecha_valoracion
                     \/ /\ Valoraciones[x].fecha_valoracion = Valoraciones[y].fecha_valoracion
                        /\ x <= y
         IN <<m>> \o OrderValoraciones(S \ {m})

\* SELECT v.*, u.nombre as nombre_usuario FROM Valoraciones v
\*   JOIN Usuarios u ON v.id_usuario = u.id_usuario WHERE v.id_receta = ?
SelectValoraciones(id_receta) ==
    LET ids == OrderValoraciones(
                  {v \in DOMAIN Valoraciones :
                      /\ Valoraciones[v].id_receta = id_receta
                      /\ Valoraciones[v].id_usuario \in DOMAIN Usuarios})
    IN [i \in 1 .. Len(ids) |->
          [id_valoracion |-> ids[i],
           id_receta |-> Valoraciones[ids[i]].id_receta,
           id_usuario |-> Valoraciones[ids[i]].id_usuario,
           puntuacion |-> Valoraciones[ids[i]].puntuacion,
           fecha_valoracion |-> Valoraciones[ids[i]].fecha_valoracion,
           nombre_usuario |-> Usuarios[Valoraciones[ids[i]].id_usuario].nombre]]

\* GET /valoraciones/receta/:id_receta
ValoracionesGetByReceta(id_receta) ==
    /\ req' = [op |-> "valoraciones.getByReceta", id |-> id_receta]
    /\ res' = Respond("valoraciones.getByReceta", 200, SelectValoraciones(id_receta))
    /\ UNCHANGED <<tables, now, login>>
    /\ UNCHANGED <<pool, handlers>>

\* GET /valoraciones/:id_valoracion
ValoracionesGetById(id_valoracion) ==
    /\ req' = [op |-> "valoraciones.getById", id |-> id_valoracion]
    /\ IF id_valoracion \notin DOMAIN Valoraciones
       THEN res' = Respond("valoraciones.getById", 404,
                      <<[mensaje |-> "Valoracion no encontrada"]>>)
       ELSE res' = Respond("valoraciones.getById", 200,
                      <<[id_valoracion |-> id_valoracion,
                         id_receta |-> Valoraciones[id_valoracion].id_receta,
                         id_usuario |-> Valoraciones[id_valoracion].id_usuario,
                         puntuacion |-> Valoraciones[id_valoracion].puntuacion,
                         fecha_valoracion |-> Valoraciones[id_valoracion].fecha_valoracion]>>)
    /\ UNCHANGED <<tables, now, login>>
    /\ UNCHANGED <<pool, handlers>>

\* A column without the CHECK.
PuntuacionCheck_None(puntuacion) == TRUE

\* puntuacion INT CHECK (puntuacion BETWEEN 1 AND 5); a NULL passes a CHECK.
PuntuacionCheck(puntuacion) ==
    puntuacion = NullInt \/ (1 <= puntuacion /\ puntuacion <= 5)

\* The constraints of Valoraciones on an inserted row: the two foreign keys
\* and the CHECK.
ValoracionesError(id_receta, id_usuario, puntuacion) ==
    IF id_receta \notin DOMAIN Recetas \/ id_usuario \notin DOMAIN Usuarios
    THEN "ER_NO_REFERENCED_ROW_2"
    ELSE IF ~PuntuacionCheck(puntuacion)
    THEN "ER_CHECK_CONSTRAINT_VIOLATED"
    ELSE ""

\* The required-field test of the create handler.
ValoracionesPostInvalid(id_receta, id_usuario, puntuacion) ==
    FalsyInt(id_receta) \/ FalsyInt(id_usuario) \/ FalsyInt(puntuacion)

\* POST /valoraciones
ValoracionesPost(id_receta, id_usuario, puntuacion) ==
    /\ auto.Valoraciones <= MaxValoracion
    /\ req' = [op |-> "valoraciones.post", puntuacion |-> puntuacion]
    /\ IF ValoracionesPostInvalid(id_receta, id_usuario, puntuacion)
       THEN /\ res' = Respond("valoraciones.post", 400,
                         <<[error |-> "id_receta, id_usuario y puntuacion son requeridos"]>>)
            /\ UNCHANGED <<Valoraciones, auto>>
       ELSE IF ValoracionesError(id_receta, id_usuario, puntuacion) # ""
       THEN /\ res' = Respond("valoraciones.post", 500,
                         <<[error |-> ValoracionesError(id_receta, id_usuario, puntuacion)]>>)
            /\ UNCHANGED <<Valoraciones, auto>>
       ELSE /\ Valoraciones' = Valoraciones @@ (auto.Valoraciones :>
                   [id_receta |-> id_receta, id_usuario |-> id_usuario,
                    puntuacion |-> puntuacion, fecha_valoracion |-> now])
            /\ auto' = [auto EXCEPT !.Valoraciones = @ + 1]
            /\ res' = Respond("valoraciones.post", 201,
                         <<[id |-> auto.Valoraciones, id_receta |-> id_receta,
                            id_usuario |-> id_usuario, puntuacion |-> puntuacion]>>)
    /\ UNCHANGED <<Usuarios, Sesiones, Categorias, Recetas, Autores_Receta,
                   Ingredientes, Receta_Ingrediente, Pasos, Suscripciones,
                   now, login>>
    /\ UNCHANGED <<pool, handlers>>

\* PUT /valoraciones/:id_valoracion
ValoracionesPut(id_valoracion, puntuacion) ==
    /\ req' = [op |-> "valoraciones.put", id |-> id_valoracion,
               puntuacion |-> puntuacion]
    /\ IF FalsyInt(puntuacion)
       THEN /\ res' = Respond("valoraciones.put", 400,
                         <<[error |-> "La puntuacion es requerida"]>>)
            /\ UNCHANGED Valoraciones
       ELSE IF id_valoracion \in DOMAIN Valoraciones /\ ~PuntuacionCheck(puntuacion)
       THEN /\ res' = Respond("valoraciones.put", 500,
                         <<[error |-> "ER_CHECK_CONSTRAINT_VIOLATED"]>>)
            /\ UNCHANGED Valoraciones
       ELSE /\ Valoraciones' = [v \in DOMAIN Valoraciones |->
                                  IF v = id_valoracion
                                  THEN [Valoraciones[v] EXCEPT !.puntuacion = puntuacion]
                                  ELSE Valoraciones[v]]
            /\ res' = Respond("valoraciones.put", 200,
                         <<[mensaje |-> "Valoracion actualizada correctamente"]>>)
    /\ UNCHANGED <<Usuarios, Sesiones, Categorias, Recetas, Autores_Receta,
                   Ingredientes, Receta_Ingrediente, Pasos, Suscripciones,
                   auto, now, login>>
    /\ UNCHANGED <<pool, handlers>>

\* DELETE /valoraciones/:id_valoracion
ValoracionesDelete(id_valoracion) ==
    /\ req' = [op |-> "valoraciones.delete", id |-> id_valoracion]
    /\ Valoraciones' = Without(Valoraciones, {id_valoracion})
    /\ res' = Respond("valoraciones.delete", 200,
                 <<[mensaje |-> "Valoracion eliminada correctamente"]>>)
    /\ UNCHANGED <<Usuarios, Sesiones, Categorias, Recetas, Autores_Receta,
                   Ingredientes, Receta_Ingrediente, Pasos, Suscripciones,
                   auto, now, login>>
    /\ UNCHANGED <<pool, handlers>>

\* ------------------------------------------------------- request inputs
UsuarioIds == 1 .. MaxUsuario + 1
SesionIds == 0 .. MaxSesion + 1

\* ------------------------------------------- sessions and their users
NextSesiones ==
    \/ Tick
    \/ \E e \in {"melani@example.com", "nuevo@example.com"},
          c \in {"password123", ""} : LoginQuery(e, c)
    \/ LoginInsert
    \/ \E s \in SesionIds : Logout(s)
    \/ UsuariosPost("Nuevo", "nuevo@example.com", "secreta", "publico")
    \/ UsuariosPut(1, "Melani", "melani@example.com", "publico", "secreta")
    \/ \E id \in {1} \cup (3 .. MaxUsuario) : UsuariosDelete(id)

SpecSesiones == Init /\ [][NextSesiones]_vars

\* C1: a logout of an Active session answers 200 and stamps fecha_cierre
\* with the current time; a logout of a closed session (the second call)
\* or of an id_sesion that names no session answers the one 404 response,
\* and leaves every session, fecha_cierre included, as it was.  (id_sesion
\* ranges over identifiers: an absent or 0 id_sesion fails the required
\* field validation with 400.)
C1_LogoutTwice ==
    [][\A id \in 1 .. MaxSesion + 1 :
          Logout(id) =>
             IF id \in DOMAIN Sesiones /\ Sesiones[id].fecha_cierre = NullInt
             THEN /\ res'.status = 200
                  /\ Sesiones'[id].fecha_cierre = now
                  /\ Sesiones'[id].fecha_cierre # NullInt
             ELSE /\ res' = Respond("logout", 404,
                              <<[mensaje |-> "La sesion no existe o ya estaba cerrada"]>>)
                  /\ Sesiones' = Sesiones]_vars

\* The second logout of a session was answered 404, at a later time than
\* the first one stamped.
C1_Witness ==
    /\ req.op = "logout" /\ res.op = "logout" /\ res.status = 404
    /\ req.id \in DOMAIN Sesiones
    /\ Sesiones[req.id].fecha_cierre # NullInt
    /\ Sesiones[req.id].fecha_cierre < now

\* C2: Closed is terminal: in every step, a session whose fecha_cierre is
\* non-null keeps that very value for as long as the row exists (a closed
\* session is never re-opened and never re-stamped).
C2_ClosedTerminal ==
    [][\A s \in DOMAIN Sesiones :
          (Sesiones[s].fecha_cierre # NullInt /\ s \in DOMAIN Sesiones')
             => Sesiones'[s].fecha_cierre = Sesiones[s].fecha_cierre]_vars

\* A closed session has outlived a later logout and a later login.
C2_Witness ==
    \E s \in DOMAIN Sesiones, t \in DOMAIN Sesiones :
        /\ Sesiones[s].fecha_cierre # NullInt
        /\ Sesiones[s].fecha_cierre < now
        /\ Sesiones[t].fecha_inicio > Sesiones[s].fecha_cierre
        /\ Sesiones[t].id_usuario = Sesiones[s].id_usuario
        /\ req = [op |-> "logout", id |-> s]

\* C3: in every state, a login with the email of an existing user and a
\* wrong password and a login with an email of no user are answered with
\* the same response, status 401 and the same body.
C3_NoUserLeak ==
    \A e1 \in Emails, e2 \in Emails, p1 \in Passwords, p2 \in Passwords :
        ( /\ \E u \in DOMAIN Usuarios :
                Usuarios[u].email = e1 /\ ~BcryptCompare(p1, Usuarios[u].contrasena)
          /\ \A u \in DOMAIN Usuarios : Usuarios[u].email # e2 )
        => /\ LoginCheck(e1, p1).done
           /\ LoginCheck(e2, p2).done
           /\ LoginCheck(e1, p1).res.status = 401
           /\ LoginCheck(e1, p1).res = LoginCheck(e2, p2).res

\* A login with an existing email and a wrong password was answered 401.
C3_Witness ==
    /\ req.op = "login" /\ res.op = "login" /\ res.status = 401
    /\ login.pc = "idle"
    /\ \E u \in DOMAIN Usuarios :
          Usuarios[u].email = req.email
          /\ ~BcryptCompare(req.contrasena, Usuarios[u].contrasena)
    /\ \E e \in Emails : \A u \in DOMAIN Usuarios : Usuarios[u].email # e

\* C4: a login with the email of an existing user and the password of the
\* stored hash goes on to the INSERT for that user; when it succeeds (201)
\* it has added exactly one session row, Active and bound to that user,
\* has returned that row's id with the user's id, and has left the
\* sessions that existed as they were.
C4_LoginCreatesSession ==
    [][ /\ \A e \in Emails, c \in Passwords :
             ( /\ LoginQuery(e, c)
               /\ \E u \in DOMAIN Usuarios :
                     Usuarios[u].email = e /\ BcryptCompare(c, Usuarios[u].contrasena) )
             => /\ login'.pc = "insert"
                /\ login'.id_usuario \in DOMAIN Usuarios
                /\ Usuarios[login'.id_usuario].email = e
        /\ (login.pc = "insert" /\ login'.pc = "idle")
             => /\ res'.status = 201 <=> login.id_usuario \in DOMAIN Usuarios
                /\ res'.status # 201 => Sesiones' = Sesiones
                /\ res'.status = 201 =>
                     \E s \in DOMAIN Sesiones' \ DOMAIN Sesiones :
                        /\ DOMAIN Sesiones' = DOMAIN Sesiones \cup {s}
                        /\ Sesiones'[s].fecha_cierre = NullInt
                        /\ Sesiones'[s].id_usuario = login.id_usuario
                        /\ res'.body[1].id_sesion = s
                        /\ res'.body[1].id_usuario = login.id_usuario
                        /\ \A o \in DOMAIN Sesiones : Sesiones'[o] = Sesiones[o]
      ]_vars

\* A login succeeded for a user who already had a session, closed or not.
C4_Witness ==
    /\ res.op = "login" /\ res.status = 201
    /\ res.body[1].id_sesion \in DOMAIN Sesiones
    /\ Sesiones[res.body[1].id_sesion].fecha_cierre = NullInt
    /\ \E o \in DOMAIN Sesiones :
          /\ o # res.body[1].id_sesion
          /\ Sesiones[o].id_usuario = res.body[1].id_usuario
          /\ Sesiones[o].fecha_cierre # NullInt


\* ------------------------------------------------------------ user CRUD
NombresPut == {"Nuevo", NULL}
EmailsPut == {"melani@example.com", "nuevo@example.com", NULL}
PasswordsPut == {"secreta", "", NULL}
TiposPut == {"premium", NULL}

NextUsuarios ==
    \/ UsuariosGet
    \/ \E n \in NombresPut, e \in EmailsPut, c \in PasswordsPut, t \in TiposPut :
          UsuariosPost(n, e, c, t)
    \/ \E id \in UsuarioIds,
          n \in NombresPut, e \in EmailsPut, c \in PasswordsPut, t \in TiposPut :
          UsuariosPut(id, n, e, t, c)
    \/ \E id \in UsuarioIds : UsuariosDelete(id)

SpecUsuarios == Init /\ [][NextUsuarios]_vars

\* C5: an update of an existing user that supplies no contrasena (absent
\* or empty) leaves that user's stored contrasena as it was, whatever the
\* other fields and whether or not the update is accepted.
C5_PutKeepsHash ==
    [][\A n \in NombresPut, e \in EmailsPut, t \in TiposPut :
          ( /\ req'.op = "usuarios.put"
            /\ FalsyStr(req'.contrasena)
            /\ req'.id \in DOMAIN Usuarios
            /\ UsuariosPut(req'.id, n, e, t, req'.contrasena) )
          => /\ req'.id \in DOMAIN Usuarios'
             /\ Usuarios'[req'.id].contrasena = Usuarios[req'.id].contrasena]_vars

\* An update with an empty contrasena was accepted and renamed the user.
C5_Witness ==
    /\ req.op = "usuarios.put" /\ res.op = "usuarios.put" /\ res.status = 200
    /\ req.contrasena = ""
    /\ req.id \in DOMAIN Usuarios
    /\ Usuarios[req.id].nombre = "Nuevo"
    /\ Usuarios[req.id].contrasena = SeedHash

\* C6: in every state reached through user creates and updates, every
\* stored contrasena is an output of the hash function, and is neither a
\* password a caller supplied nor empty nor NULL.
C6_OnlyHashesStored ==
    \A u \in DOMAIN Usuarios :
        /\ Usuarios[u].contrasena \in Hashes
        /\ Usuarios[u].contrasena \notin Passwords \cup {"", NULL}

\* A created user and an updated user both hold the hash of the password
\* their request carried.
C6_Witness ==
    /\ \E u \in DOMAIN Usuarios : u >= 3 /\ Usuarios[u].contrasena = BcryptHash("")
    /\ Usuarios[1].contrasena = BcryptHash("secreta")


\* -------------------------------------------------------------- ratings
PuntuacionesIn == {NullInt, 0, 1, 5, 6}

NextValoraciones ==
    \/ Tick
    \/ \E r \in {0, 1, MaxReceta + 1}, u \in {NullInt, 2, MaxUsuario + 1},
          p \in PuntuacionesIn : ValoracionesPost(r, u, p)
    \/ \E v \in 1 .. MaxValoracion + 1, p \in PuntuacionesIn : ValoracionesPut(v, p)
    \/ \E v \in 1 .. MaxValoracion + 1 : ValoracionesDelete(v)
    \/ \E r \in 1 .. 2 : ValoracionesGetByReceta(r)

SpecValoraciones == Init /\ [][NextValoraciones]_vars

\* C8: a rating create with score 0 or 6 is answered 400 and stores
\* nothing; with score 1 or 5, for an existing recipe and user, it is
\* answered 201.
C8_ScoreValidation ==
    [][\A r \in {1, MaxReceta + 1}, u \in {2, MaxUsuario + 1}, p \in {0, 1, 5, 6} :
          ( /\ req'.op = "valoraciones.post" /\ req'.puntuacion = p
            /\ ValoracionesPost(r, u, p) )
          => /\ p \in {0, 6} => (res'.status = 400 /\ Valoraciones' = Valoraciones)
             /\ (p \in {1, 5} /\ r \in DOMAIN Recetas /\ u \in DOMAIN Usuarios)
                   => res'.status = 201]_vars

\* C9: in every state reached through rating creates and updates, every
\* stored puntuacion is an integer from 1 to 5.
C9_PuntuacionInRange ==
    \A v \in DOMAIN Valoraciones :
        /\ Valoraciones[v].puntuacion \in Int
        /\ 1 <= Valoraciones[v].puntuacion
        /\ Valoraciones[v].puntuacion <= 5

\* A created rating was updated to score 1, and an update to score 6 of an
\* existing rating has just been refused.
C9_Witness ==
    /\ \E v \in DOMAIN Valoraciones : v >= 3 /\ Valoraciones[v].puntuacion = 1
    /\ req.op = "valoraciones.put" /\ req.puntuacion = 6
    /\ req.id \in DOMAIN Valoraciones
    /\ res.op = "valoraciones.put" /\ res.status = 500

\* ------------------------------------------------------------ responses
NextRespuestas ==
    \/ UsuariosGet
    \/ \E e \in {"nuevo@example.com", "melani@example.com"}, c \in {"secreta", NULL} :
          UsuariosPost("Nuevo", e, c, "publico")
    \/ \E id \in {1, MaxUsuario}, c \in {"secreta", NULL} :
          UsuariosPut(id, "Nuevo", "nuevo@example.com", "premium", c)
    \/ \E e \in {"melani@example.com", "nuevo@example.com"},
          c \in {"password123", "secreta"} : LoginQuery(e, c)
    \/ LoginInsert
    \/ RecetasGet
    \/ \E r \in {1, MaxReceta + 1} : RecetasGetById(r)
    \/ \E t \in {"pi", "pas", "e"} : RecetasBuscar(t)
    \/ \E r \in 1 .. 2 : ValoracionesGetByReceta(r)

SpecRespuestas == Init /\ [][NextRespuestas]_vars

\* The members of a response body that are strings.
StringFields == {"error", "mensaje", "message", "nombre", "email", "tipo_usuario",
                 "titulo", "categoria", "autor", "nombre_usuario"}

\* C7: no response (of the user list, create and update, of login, of the
\* recipe list, detail and search, of the ratings of a recipe) carries a
\* member named contrasena or a value that is a password hash.
C7_NoHashInResponses ==
    \A i \in 1 .. Len(res.body) :
        /\ "contrasena" \notin DOMAIN res.body[i]
        /\ \A f \in DOMAIN res.body[i] \cap StringFields :
              /\ res.body[i][f] \notin Hashes
              /\ \A u \in DOMAIN Usuarios : res.body[i][f] # Usuarios[u].contrasena

\* The user list was answered with a created user in it, after a password
\* change.
C7_Witness ==
    /\ res.op = "usuarios.get" /\ res.status = 200
    /\ \E i \in 1 .. Len(res.body) : res.body[i].id_usuario >= 3
    /\ \E u \in DOMAIN Usuarios : Usuarios[u].contrasena # SeedHash


\* ---------------------------------------------------- update and delete
NextCrud ==
    \/ \E id \in {1, MaxReceta + 1} : RecetasPut(id, "Postre Gourmet", 1, 0, 2, 2)
    \/ \E id \in {1, MaxReceta + 1} : RecetasDelete(id)
    \/ \E id \in {1, MaxCategoria + 1} : CategoriasPut(id, "Postre")
    \/ \E id \in {1, MaxCategoria + 1} : CategoriasDelete(id)
    \/ \E id \in {1, MaxPaso + 1} : PasosPut(id, 2, "Mezclar")
    \/ \E id \in {1, MaxPaso + 1} : PasosDelete(id)
    \/ \E id \in {1, MaxValoracion + 1} : ValoracionesPut(id, 3)
    \/ \E id \in {1, MaxValoracion + 1} : ValoracionesDelete(id)
    \/ \E id \in {1, MaxIngrediente + 1} : IngredientesPut(id, "Crema")
    \/ \E id \in {1, MaxIngrediente + 1} : IngredientesDelete(id)
    \/ \E id \in {1, MaxSuscripcion + 1} : SuscripcionesPut(id, 2, 50)
    \/ \E id \in {1, MaxSuscripcion + 1} : SuscripcionesDelete(id)
    \/ \E id \in {1, MaxUsuario + 1} :
          UsuariosPut(id, "Nuevo", "melani@example.com", "premium", NULL)
    \/ \E id \in {1, MaxUsuario + 1} : UsuariosDelete(id)

SpecCrud == Init /\ [][NextCrud]_vars

\* C10: an update or a delete of a recipe, category, step, rating,
\* ingredient, subscription or user whose identifier matches no row is
\* answered 404.
C10_MissingRowNotFound ==
    [][ /\ \A id \in {1, MaxReceta + 1} :
             ( /\ id \notin DOMAIN Recetas
               /\ RecetasPut(id, "Postre Gourmet", 1, 0, 2, 2) \/ RecetasDelete(id) )
             => res'.status = 404
        /\ \A id \in {1, MaxCategoria + 1} :
             ( /\ id \notin DOMAIN Categorias
               /\ CategoriasPut(id, "Postre") \/ CategoriasDelete(id) )
             => res'.status = 404
        /\ \A id \in {1, MaxPaso + 1} :
             ( /\ id \notin DOMAIN Pasos
               /\ PasosPut(id, 2, "Mezclar") \/ PasosDelete(id) )
             => res'.status = 404
        /\ \A id \in {1, MaxValoracion + 1} :
             ( /\ id \notin DOMAIN Valoraciones
               /\ ValoracionesPut(id, 3) \/ ValoracionesDelete(id) )
             => res'.status = 404
        /\ \A id \in {1, MaxIngrediente + 1} :
             ( /\ id \notin DOMAIN Ingredientes
               /\ IngredientesPut(id, "Crema") \/ IngredientesDelete(id) )
             => res'.status = 404
        /\ \A id \in {1, MaxSuscripcion + 1} :
             ( /\ id \notin DOMAIN Suscripciones
               /\ SuscripcionesPut(id, 2, 50) \/ SuscripcionesDelete(id) )
             => res'.status = 404
        /\ \A id \in {1, MaxUsuario + 1} :
             ( /\ id \notin DOMAIN Usuarios
               /\ UsuariosPut(id, "Nuevo", "melani@example.com", "premium", NULL)
                  \/ UsuariosDelete(id) )
             => res'.status = 404
      ]_vars


\* ---------------------------------------------------------------- create
\* Create requests: the complete one and, for every required field, the one
\* that leaves it out.
RecetasIn ==
    {<<"Postre Gourmet", 2, 2>>, <<NULL, 2, 2>>,
     <<"Postre Gourmet", NullInt, 2>>, <<"Postre Gourmet", 2, NullInt>>}
UsuariosIn ==
    {<<"Nuevo", "nuevo@example.com", "secreta">>, <<NULL, "nuevo@example.com", "secreta">>,
     <<"Nuevo", NULL, "secreta">>, <<"Nuevo", "nuevo@example.com", NULL>>}
ValoracionesIn == {<<1, 2, 5>>, <<NullInt, 2, 5>>, <<1, NullInt, 5>>, <<1, 2, NullInt>>}
PasosIn ==
    {<<1, 2, "Mezclar">>, <<NullInt, 2, "Mezclar">>, <<1, NullInt, "Mezclar">>,
     <<1, 2, NULL>>}
SuscripcionesIn == {<<2, 2, 50>>, <<NullInt, 2, 50>>, <<2, NullInt, 50>>, <<2, 2, NullInt>>}

NextCrear ==
    \/ \E i \in RecetasIn : RecetasPost(i[1], 1, 0, i[2], i[3])
    \/ \E i \in UsuariosIn : UsuariosPost(i[1], i[2], i[3], "publico")
    \/ \E i \in ValoracionesIn : ValoracionesPost(i[1], i[2], i[3])
    \/ \E i \in PasosIn : PasosPost(i[1], i[2], i[3])
    \/ \E n \in {"Postre", NULL} : CategoriasPost(n)
    \/ \E n \in {"Crema", NULL} : IngredientesPost(n)
    \/ \E i \in SuscripcionesIn : SuscripcionesPost(i[1], i[2], i[3])

SpecCrear == Init /\ [][NextCrear]_vars

\* C11: a create request of a recipe, user, rating, step, category,
\* ingredient or subscription that leaves out a required field is answered
\* 400.
C11_MissingFieldRejected ==
    [][ /\ \A i \in RecetasIn :
             ( /\ i[1] = NULL \/ i[2] = NullInt \/ i[3] = NullInt
               /\ RecetasPost(i[1], 1, 0, i[2], i[3]) )
             => res'.status = 400
        /\ \A i \in UsuariosIn :
             ( /\ i[1] = NULL \/ i[2] = NULL \/ i[3] = NULL
               /\ UsuariosPost(i[1], i[2], i[3], "publico") )
             => res'.status = 400
        /\ \A i \in ValoracionesIn :
             ( /\ i[1] = NullInt \/ i[2] = NullInt \/ i[3] = NullInt
               /\ ValoracionesPost(i[1], i[2], i[3]) )
             => res'.status = 400
        /\ \A i \in PasosIn :
             ( /\ i[1] = NullInt \/ i[2] = NullInt \/ i[3] = NULL
               /\ PasosPost(i[1], i[2], i[3]) )
             => res'.status = 400
        /\ CategoriasPost(NULL) => res'.status = 400
        /\ IngredientesPost(NULL) => res'.status = 400
        /\ \A i \in SuscripcionesIn :
             ( /\ i[1] = NullInt \/ i[2] = NullInt \/ i[3] = NullInt
               /\ SuscripcionesPost(i[1], i[2], i[3]) )
             => res'.status = 400
      ]_vars


\* ------------------------------------------------------------ validation
\* The handlers that answer 400 or 401, each with a request it accepts and
\* requests it refuses.
NextValidacion ==
    \/ \E e \in {"melani@example.com", "nuevo@example.com", NULL},
          c \in {"password123", "secreta"} : LoginQuery(e, c)
    \/ LoginInsert
    \/ \E s \in {0, 1} : Logout(s)
    \/ \E p \in {0, 5} : ValoracionesPost(1, 2, p)
    \/ ValoracionesPut(1, NullInt)
    \/ \E n \in {0, 2} : PasosPost(1, n, "Mezclar")
    \/ PasosPut(1, 2, "")
    \/ \E n \in {"", "Postre"} : CategoriasPost(n)
    \/ CategoriasPut(1, NULL)
    \/ \E n \in {"", "Crema"} : IngredientesPost(n)
    \/ IngredientesPut(1, "")
    \/ \E m \in {0, 50} : SuscripcionesPost(2, 2, m)
    \/ SuscripcionesPut(1, NullInt, 50)

SpecValidacion == Init /\ [][NextValidacion]_vars

\* C12: a request answered 400 or 401 leaves every table as it was, and the
\* subscription create answered 400 did not reach its query.
C12_RefusedWritesNothing ==
    [][ /\ res'.status \in {400, 401} => tables' = tables
        /\ \A m \in {0, 50} :
             (SuscripcionesPost(2, 2, m) /\ res'.status = 400)
             => ~SuscripcionesPostQueries(2, 2, m)
      ]_vars

\* A subscription create is answered 400 in a state where a login has added
\* a session, and the table of subscriptions still holds its one row.
C12_Witness ==
    /\ res.op = "suscripciones.post" /\ res.status = 400
    /\ auto.Sesiones > 3
    /\ DOMAIN Suscripciones = {1}


\* ------------------------------------------------------------ get by id
NextLeer ==
    \/ \E id \in 1 .. MaxReceta + 1 : RecetasGetById(id)
    \/ \E id \in {1, MaxCategoria + 1} : CategoriasGetById(id)
    \/ \E id \in {1, MaxPaso + 1} : PasosGetById(id)
    \/ \E id \in {1, MaxValoracion + 1} : ValoracionesGetById(id)
    \/ \E id \in {1, MaxIngrediente + 1} : IngredientesGetById(id)
    \/ \E id \in {1, MaxSuscripcion + 1} : SuscripcionesGetById(id)
    \/ \E c \in {2, NullInt} : RecetasPost("Postre Gourmet", 1, 0, c, 2)
    \/ RecetasDelete(1)
    \/ CategoriasDelete(1)
    \/ PasosDelete(1)
    \/ ValoracionesDelete(1)
    \/ IngredientesDelete(1)
    \/ SuscripcionesDelete(1)

SpecLeer == Init /\ [][NextLeer]_vars

\* C13: get by id of a recipe, category, step, rating, ingredient or
\* subscription answers 200 with the stored row when a row has the id, and
\* 404 (never 500) when none has.
C13_GetById ==
    [][ /\ \A id \in 1 .. MaxReceta + 1 : RecetasGetById(id) =>
             IF id \in DOMAIN Recetas
             THEN /\ res'.status = 200
                  /\ res'.body[1].id_receta = id
                  /\ res'.body[1].titulo = Recetas[id].titulo
             ELSE res'.status = 404
        /\ \A id \in {1, MaxCategoria + 1} : CategoriasGetById(id) =>
             IF id \in DOMAIN Categorias
             THEN /\ res'.status = 200
                  /\ res'.body = <<[id_categoria |-> id,
                                    nombre |-> Categorias[id].nombre]>>
             ELSE res'.status = 404
        /\ \A id \in {1, MaxPaso + 1} : PasosGetById(id) =>
             IF id \in DOMAIN Pasos
             THEN /\ res'.status = 200
                  /\ res'.body[1].id_paso = id
                  /\ res'.body[1].descripcion = Pasos[id].descripcion
             ELSE res'.status = 404
        /\ \A id \in {1, MaxValoracion + 1} : ValoracionesGetById(id) =>
             IF id \in DOMAIN Valoraciones
             THEN /\ res'.status = 200
                  /\ res'.body[1].id_valoracion = id
                  /\ res'.body[1].puntuacion = Valoraciones[id].puntuacion
             ELSE res'.status = 404
        /\ \A id \in {1, MaxIngrediente + 1} : IngredientesGetById(id) =>
             IF id \in DOMAIN Ingredientes
             THEN /\ res'.status = 200
                  /\ res'.body = <<[id_ingrediente |-> id,
                                    nombre |-> Ingredientes[id].nombre]>>
             ELSE res'.status = 404
        /\ \A id \in {1, MaxSuscripcion + 1} : SuscripcionesGetById(id) =>
             IF id \in DOMAIN Suscripciones
             THEN /\ res'.status = 200
                  /\ res'.body[1].id_suscripcion = id
                  /\ res'.body[1].monto = Suscripciones[id].monto
             ELSE res'.status = 404
      ]_vars


\* --------------------------------------------------------------- search
Terminos == {"pi", "e", "a"}

NextBuscar ==
    \/ \E t \in Terminos : RecetasBuscar(t)
    \/ \E c \in {2, NullInt} : RecetasPost("Postre Gourmet", 1, 0, c, 2)
    \/ \E r \in {1, MaxReceta} : RecetaIngredienteInsert(r, 2, 5)
    \/ IngredientesDelete(1)
    \/ RecetasDelete(2)

SpecBuscar == Init /\ [][NextBuscar]_vars

\* C14: the search answers with exactly the recipes whose title contains
\* the term or that are linked to an ingredient whose name contains it,
\* each of them once.
C14_BuscarExact ==
    [][ \A t \in Terminos : RecetasBuscar(t) =>
          LET matching ==
                {r \in DOMAIN Recetas :
                    \/ Like(Recetas[r].titulo, t)
                    \/ \E ri \in Receta_Ingrediente :
                         /\ ri.id_receta = r
                         /\ ri.id_ingrediente \in DOMAIN Ingredientes
                         /\ Like(Ingredientes[ri.id_ingrediente].nombre, t)}
          IN /\ {res'.body[i].id_receta : i \in 1 .. Len(res'.body)} = matching
             /\ Len(res'.body) = Cardinality(matching)
      ]_vars


\* ------------------------------------------------- deletes and their keys
NextCascada ==
    \/ \E id \in {1, 2} : RecetasDelete(id)
    \/ \E id \in {1, 2} : UsuariosDelete(id)
    \/ \E id \in {1, 2} : IngredientesDelete(id)
    \/ \E id \in {1, 2} : CategoriasDelete(id)
    \/ LoginQuery("melani@example.com", "password123")
    \/ LoginInsert
    \/ ValoracionesPost(2, 1, 5)
    \/ PasosPost(1, 2, "Mezclar")
    \/ SuscripcionesPost(1, 2, 50)
    \/ AutoresRecetaInsert(2, 1, "invitado", 0)
    \/ RecetaIngredienteInsert(2, 1, 5)

SpecCascada == Init /\ [][NextCascada]_vars

\* C15: no session, collaborator link, recipe-ingredient link, step, rating
\* or subscription references a recipe, user or ingredient that is not in
\* its table (nor a recipe a category or author that is not), whatever
\* recipes, users and ingredients have been deleted.
C15_NoOrphans ==
    /\ \A x \in DOMAIN Sesiones :
          Sesiones[x].id_usuario \in DOMAIN Usuarios \cup {NullInt}
    /\ \A a \in Autores_Receta :
          a.id_receta \in DOMAIN Recetas /\ a.id_usuario \in DOMAIN Usuarios
    /\ \A ri \in Receta_Ingrediente :
          ri.id_receta \in DOMAIN Recetas /\ ri.id_ingrediente \in DOMAIN Ingredientes
    /\ \A x \in DOMAIN Pasos : Pasos[x].id_receta \in DOMAIN Recetas \cup {NullInt}
    /\ \A x \in DOMAIN Valoraciones :
          /\ Valoraciones[x].id_receta \in DOMAIN Recetas \cup {NullInt}
          /\ Valoraciones[x].id_usuario \in DOMAIN Usuarios \cup {NullInt}
    /\ \A x \in DOMAIN Suscripciones :
          Suscripciones[x].id_usuario \in DOMAIN Usuarios \cup {NullInt}
    /\ \A r \in DOMAIN Recetas :
          /\ Recetas[r].categoria_id \in DOMAIN Categorias \cup {NullInt}
          /\ Recetas[r].autor_id \in DOMAIN Usuarios \cup {NullInt}

\* Recipe 1 and then its author, user 1, have been deleted; the rows that
\* referenced them (session 1, step 1, both seed ratings, the two links of
\* recipe 1) are gone and the rows of recipe 2 and user 2 are still there.
C15_Witness ==
    /\ res.op = "usuarios.delete" /\ res.status = 200 /\ req.id = 1
    /\ 1 \notin DOMAIN Recetas /\ 1 \notin DOMAIN Usuarios
    /\ 1 \notin DOMAIN Sesiones /\ 1 \notin DOMAIN Pasos
    /\ 1 \notin DOMAIN Valoraciones /\ 2 \notin DOMAIN Valoraciones
    /\ 2 \in DOMAIN Pasos /\ 2 \in DOMAIN Sesiones /\ 1 \in DOMAIN Suscripciones
    /\ Autores_Receta = {}

\* C16: the delete of a user who is the primary author of a recipe, and the
\* delete of a category a recipe references, are answered 500 and leave
\* every table as it was.
C16_RestrictedDelete ==
    [][ /\ \A id \in {1, 2} :
             ( /\ UsuariosDelete(id)
               /\ \E r \in DOMAIN Recetas : Recetas[r].autor_id = id )
             => (res'.status = 500 /\ tables' = tables)
        /\ \A id \in {1, 2} :
             ( /\ CategoriasDelete(id)
               /\ \E r \in DOMAIN Recetas : Recetas[r].categoria_id = id )
             => (res'.status = 500 /\ tables' = tables)
      ]_vars

\* The delete of user 2, author of recipe 2, has been refused; the session,
\* rating, subscription and collaborator link of user 2 are in place.
C16_Witness ==
    /\ res.op = "usuarios.delete" /\ res.status = 500 /\ req.id = 2
    /\ 2 \in DOMAIN Usuarios /\ 2 \in DOMAIN Recetas /\ Recetas[2].autor_id = 2
    /\ 2 \in DOMAIN Sesiones /\ 1 \in DOMAIN Valoraciones
    /\ 1 \in DOMAIN Suscripciones
    /\ \E a \in Autores_Receta : a.id_usuario = 2


\* ------------------------------------------------------ composite keys
NextEnlaces ==
    \/ \E r \in {1, 2}, u \in {1, 2}, p \in {0, 1} :
          AutoresRecetaInsert(r, u, "invitado", p)
    \/ \E r \in {1, 2}, i \in {1, 2} : RecetaIngredienteInsert(r, i, 5)
    \/ RecetasDelete(2)
    \/ IngredientesDelete(2)

SpecEnlaces == Init /\ [][NextEnlaces]_vars

\* C17: an insert of a collaborator link whose (recipe, user) pair is in the
\* table, or of a recipe-ingredient link whose (recipe, ingredient) pair is
\* in the table, is refused as a duplicate key and leaves the table (the
\* first link's rol, permiso_modificar, cantidad) as it was; a pair is in
\* its table at most once.
C17_DuplicateLink ==
    [][ /\ \A r \in {1, 2}, u \in {1, 2}, p \in {0, 1} :
             ( /\ AutoresRecetaInsert(r, u, "invitado", p)
               /\ \E a \in Autores_Receta : a.id_receta = r /\ a.id_usuario = u )
             => /\ res'.body = <<[error |-> "ER_DUP_ENTRY"]>>
                /\ Autores_Receta' = Autores_Receta
        /\ \A r \in {1, 2}, i \in {1, 2} :
             ( /\ RecetaIngredienteInsert(r, i, 5)
               /\ \E ri \in Receta_Ingrediente :
                     ri.id_receta = r /\ ri.id_ingrediente = i )
             => /\ res'.body = <<[error |-> "ER_DUP_ENTRY"]>>
                /\ Receta_Ingrediente' = Receta_Ingrediente
        /\ \A a, b \in Autores_Receta' :
             (a.id_receta = b.id_receta /\ a.id_usuario = b.id_usuario) => a = b
        /\ \A a, b \in Receta_Ingrediente' :
             (a.id_receta = b.id_receta /\ a.id_ingrediente = b.id_ingrediente)
             => a = b
      ]_vars

\* A second link of user 2 to recipe 1, as "invitado" without the permission,
\* has been refused; the seed link of the pair is as it was.
C17_Witness ==
    /\ res.op = "Autores_Receta.insert" /\ res.body = <<[error |-> "ER_DUP_ENTRY"]>>
    /\ req.id_receta = 1 /\ req.id_usuario = 2 /\ req.permiso_modificar = 0
    /\ [id_receta |-> 1, id_usuario |-> 2, rol |-> "colaborador",
        permiso_modificar |-> 1] \in Autores_Receta


\* -------------------------------------------------------- authorization
\* No recipe handler reads an identity from its request (no header, session
\* or token is looked at), so the answer to a request is the answer given to
\* every user who sends it.

\* C18: a recipe is in the answer of the list, the detail or the search only
\* if every user who can send the request may view it: its primary author,
\* its secondary authors and, when it is public, every user if it is not
\* premium and the premium users if it is.
C18_OnlyViewable ==
    (res.op \in {"recetas.get", "recetas.getById", "recetas.buscar"} /\ res.status = 200)
    => \A u \in DOMAIN Usuarios, i \in 1 .. Len(res.body) :
          LET r == res.body[i].id_receta
          IN \/ Recetas[r].autor_id = u
             \/ \E a \in Autores_Receta : a.id_receta = r /\ a.id_usuario = u
             \/ /\ Recetas[r].es_publica = 1
                /\ Recetas[r].es_premium # 1 \/ Usuarios[u].tipo_usuario = "premium"

NextAutoria ==
    \/ \E id \in {1, 2} : RecetasDelete(id)
    \/ \E id \in {1, 2} : RecetasPut(id, "Tacos al Pastor", 1, 0, 1, 1)
    \/ \E p \in {0, 1} : AutoresRecetaInsert(2, 1, "invitado", p)
    \/ UsuariosPost("Nuevo", "nuevo@example.com", "secreta", "publico")
    \/ \E id \in {1, 2} : RecetasGetById(id)

SpecAutoria == Init /\ [][NextAutoria]_vars

\* C19: the delete of a recipe sent by a user who is not its primary author
\* is refused and leaves every table as it was.
C19_OnlyAuthorDeletes ==
    [][ \A id \in {1, 2} :
          ( /\ RecetasDelete(id)
            /\ id \in DOMAIN Recetas
            /\ \E u \in DOMAIN Usuarios : u # Recetas[id].autor_id )
          => (res'.status # 200 /\ tables' = tables)
      ]_vars

\* C20: the update of a recipe sent by a user who is neither its primary
\* author nor a secondary author with permiso_modificar is refused and
\* leaves the recipe as it was.
C20_OnlyAuthorsModify ==
    [][ \A id \in {1, 2} :
          ( /\ RecetasPut(id, "Tacos al Pastor", 1, 0, 1, 1)
            /\ id \in DOMAIN Recetas
            /\ \E u \in DOMAIN Usuarios :
                  /\ u # Recetas[id].autor_id
                  /\ ~\E a \in Autores_Receta :
                        /\ a.id_receta = id /\ a.id_usuario = u
                        /\ a.permiso_modificar = 1 )
          => (res'.status # 200 /\ Recetas' = Recetas)
      ]_vars


\* ------------------------------------------------- the columns of a user
\* C21: no two users hold the same email, and a create or an update that
\* would give a user the email of another user is answered 500 and leaves
\* the users as they were.
C21_EmailUnique ==
    [][ /\ \A u, v \in DOMAIN Usuarios' :
             Usuarios'[u].email = Usuarios'[v].email => u = v
        /\ \A c \in PasswordsPut :
             (req'.op = "usuarios.post" /\ req'.contrasena = c) =>
             \A n \in NombresPut, e \in EmailsPut, t \in TiposPut :
                ( /\ UsuariosPost(n, e, c, t)
                  /\ \E u \in DOMAIN Usuarios : Usuarios[u].email = e )
                => (res'.status = 500 /\ Usuarios' = Usuarios)
        /\ \A id \in UsuarioIds, c \in PasswordsPut :
             (req'.op = "usuarios.put" /\ req'.id = id /\ req'.contrasena = c) =>
             \A n \in NombresPut, e \in EmailsPut, t \in TiposPut :
                ( /\ UsuariosPut(id, n, e, t, c)
                  /\ id \in DOMAIN Usuarios
                  /\ \E u \in DOMAIN Usuarios \ {id} : Usuarios[u].email = e )
                => (res'.status = 500 /\ Usuarios' = Usuarios)
      ]_vars

\* An update has been refused as a duplicate while a user created through
\* the API holds its own email.
C21_Witness ==
    /\ res.op = "usuarios.put" /\ res.body = <<[error |-> "ER_DUP_ENTRY"]>>
    /\ \E u \in DOMAIN Usuarios : Usuarios[u].email = "nuevo@example.com"
    /\ \E u \in DOMAIN Usuarios : Usuarios[u].email = "melani@example.com"

\* C22: the tier of every user is publico or premium, never NULL, whatever
\* creates and updates (the ones without tipo_usuario included) have run.
C22_TipoEnumerated ==
    \A u \in DOMAIN Usuarios : Usuarios[u].tipo_usuario \in TiposUsuario

\* C23: a response with status 500 does not carry the error text of the
\* storage engine.
C23_OpaqueFailure ==
    res.status = 500 =>
       \A i \in 1 .. Len(res.body) :
          res.body[i].error \notin
             {"ER_BAD_NULL_ERROR", "ER_DUP_ENTRY", "ER_NO_REFERENCED_ROW_2",
              "ER_ROW_IS_REFERENCED_2", "ER_CHECK_CONSTRAINT_VIOLATED",
              "WARN_DATA_TRUNCATED"}


\* ------------------------------------------------------ steps of a recipe
NextPasos ==
    \/ \E r \in {1, 2, MaxReceta + 1} : PasosGetByReceta(r)
    \/ \E r \in {1, 2}, n \in {1, 5} : PasosPost(r, n, "Mezclar")
    \/ \E id \in {1, MaxPaso}, n \in {1, 7} : PasosPut(id, n, "Cortar")
    \/ PasosDelete(1)

SpecPasos == Init /\ [][NextPasos]_vars

\* C25: the list of the steps of a recipe holds exactly the steps of that
\* recipe, each once, in ascending numero_paso order, whatever numbers the
\* callers gave (gaps and repeats included).
C25_PasosOrdered ==
    [][ \A r \in {1, 2, MaxReceta + 1} : PasosGetByReceta(r) =>
          /\ res'.status = 200
          /\ {res'.body[i].id_paso : i \in 1 .. Len(res'.body)}
                = {x \in DOMAIN Pasos : Pasos[x].id_receta = r}
          /\ Len(res'.body) = Cardinality({x \in DOMAIN Pasos : Pasos[x].id_receta = r})
          /\ \A i, j \in 1 .. Len(res'.body) :
                i < j => res'.body[i].numero_paso <= res'.body[j].numero_paso
      ]_vars

\* The list of recipe 1 has the later step, numbered 5, before the seed
\* step, renumbered 7.
C25_Witness ==
    /\ res.op = "pasos.getByReceta" /\ req.id = 1 /\ Len(res.body) = 2
    /\ res.body[1].id_paso > res.body[2].id_paso
    /\ res.body[1].numero_paso = 5 /\ res.body[2].numero_paso = 7


\* ---------------------------------------------- a login and its user
NextCarrera ==
    \/ Tick
    \/ \E c \in {"password123", "secreta"} : LoginQuery("melani@example.com", c)
    \/ LoginInsert
    \/ RecetasDelete(1)
    \/ UsuariosDelete(1)
    \/ UsuariosPut(1, "Melani", "melani@example.com", "publico", "secreta")

SpecCarrera == Init /\ [][NextCarrera]_vars

\* C27: whatever delete or password update of the user runs between the
\* two queries of a login, no session references a user that is not in
\* Usuarios, and the INSERT of a login whose user has been deleted since
\* its SELECT is answered 500 and adds no session.
C27_LoginRace ==
    [][ /\ \A x \in DOMAIN Sesiones' :
             Sesiones'[x].id_usuario \in DOMAIN Usuarios' \cup {NullInt}
        /\ (LoginInsert /\ login.id_usuario \notin DOMAIN Usuarios)
             => (res'.status = 500 /\ Sesiones' = Sesiones)
      ]_vars

\* A login of user 1 has been answered 500: the user was deleted after the
\* SELECT had found it, and no session of user 1 is in the table.
C27_Witness ==
    /\ res.op = "login" /\ res.status = 500
    /\ 1 \notin DOMAIN Usuarios
    /\ \A x \in DOMAIN Sesiones : Sesiones[x].id_usuario # 1


\* ------------------------------------------------------ stored recipes
NextVisibles ==
    \/ RecetasGet
    \/ \E id \in 1 .. MaxReceta + 1 : RecetasGetById(id)
    \/ RecetasBuscar("e")
    \/ \E c \in {2, NullInt}, a \in {2, NullInt} :
          RecetasPost("Postre Gourmet", 1, 0, c, a)
    \/ \E id \in {1, 2}, c \in {1, NullInt} :
          RecetasPut(id, "Tacos al Pastor", 1, 0, c, 1)

SpecVisibles == Init /\ [][NextVisibles]_vars

\* C28: the list answers with every stored recipe, and the get by id of a
\* stored recipe answers 200 with it.
C28_StoredIsVisible ==
    /\ res.op = "recetas.get" =>
          {res.body[i].id_receta : i \in 1 .. Len(res.body)} = DOMAIN Recetas
    /\ (res.op = "recetas.getById" /\ req.id \in DOMAIN Recetas) =>
          (res.status = 200 /\ res.body[1].id_receta = req.id)

\* ------------------------------------------------------ connection pool
\* The options of createPool in db.js.
connectionLimit == 10
waitForConnections == TRUE
queueLimit == 0

\* A pool that opens a connection whatever the number already open.
PoolHasRoom_Always == TRUE
\* Fewer than connectionLimit connections are in use.
PoolHasRoom == Cardinality(pool.held) < connectionLimit

\* pool.query, entry: operation i, numbered by arrival, asks the pool for
\* a connection.  It takes one when the pool has room; otherwise, with
\* waitForConnections set and the queue under its limit (0: no limit), it
\* waits in the queue, and else it fails.
PoolQuery(i) ==
    /\ i = pool.next
    /\ pool' =
         IF PoolHasRoom
         THEN [pool EXCEPT !.held = @ \cup {i}, !.next = @ + 1]
         ELSE IF ~waitForConnections
                   \/ (queueLimit # 0 /\ Len(pool.queue) >= queueLimit)
         THEN [pool EXCEPT !.failed = @ \cup {i}, !.next = @ + 1]
         ELSE [pool EXCEPT !.queue = Append(@, i), !.next = @ + 1]
    /\ UNCHANGED <<tables, now, login, req, res, handlers>>

\* pool.query, exit: operation i has its result and releases its
\* connection, which goes to the operation waiting longest, if any.
PoolRelease(i) ==
    /\ i \in pool.held
    /\ pool' =
         IF pool.queue # <<>>
         THEN [pool EXCEPT !.held = (@ \ {i}) \cup {Head(pool.queue)},
                           !.queue = Tail(@)]
         ELSE [pool EXCEPT !.held = @ \ {i}]
    /\ UNCHANGED <<tables, now, login, req, res, handlers>>

NextPool ==
    \/ \E i \in 1 .. MaxPeticion : PoolQuery(i)
    \/ \E i \in 1 .. MaxPeticion : PoolRelease(i)

\* Operations holding a connection eventually release it.
SpecPool ==
    Init /\ [][NextPool]_vars /\ WF_vars(\E i \in 1 .. MaxPeticion : PoolRelease(i))

\* C24: the operations holding a connection never exceed connectionLimit;
\* an operation arriving when every connection is in use waits in the queue
\* and is not failed; and, the holders releasing, every operation in the
\* queue eventually holds a connection.
C24_PoolBounded ==
    /\ [](Cardinality(pool.held) <= connectionLimit /\ pool.failed = {})
    /\ \A i \in 1 .. MaxPeticion :
          (\E k \in 1 .. Len(pool.queue) : pool.queue[k] = i) ~> (i \in pool.held)

\* Every connection is in use and an operation waits for one.
C24_Witness ==
    /\ Cardinality(pool.held) = connectionLimit
    /\ pool.queue # <<>>

\* -------------------------------------------------- handlers in flight
\* A handler runs to its first await, the engine executes the statement,
\* and the handler's continuation runs when the result is back; handlers
\* of other requests run in between.

\* A continuation whose early response is not followed by a return.
Sends_FallThrough(early, success) == early \o success
\* The responses a continuation sends: "if (...) return res.status(..)..."
\* followed by "res.json(...)".
Sends(early, success) == IF early # <<>> THEN early ELSE success

\* An UPDATE that reports the rows its id names, closed or not.
LogoutAffectedRows_Named(id_sesion) ==
    Cardinality({s \in DOMAIN Sesiones : s = id_sesion})
\* result.affectedRows of the logout UPDATE.
LogoutAffectedRows(id_sesion) == Cardinality(LogoutMatched(id_sesion))

\* POST /sesiones/logout, up to "await db.query".
LogoutRecv(h, id_sesion) ==
    /\ handlers[h].pc = "idle"
    /\ handlers' = [handlers EXCEPT ![h] =
          IF FalsyInt(id_sesion)
          THEN [op |-> "logout", pc |-> "done", arg |-> id_sesion,
                result |-> NullInt, sent |-> <<400>>]
          ELSE [op |-> "logout", pc |-> "query", arg |-> id_sesion,
                result |-> NullInt, sent |-> <<>>]]
    /\ UNCHANGED <<tables, now, login, req, res, pool>>

\* The engine executes the logout's UPDATE.
LogoutExec(h) ==
    /\ handlers[h].op = "logout"
    /\ handlers[h].pc = "query"
    /\ Sesiones' = LogoutUpdate(handlers[h].arg)
    /\ handlers' = [handlers EXCEPT ![h].pc = "result",
                                    ![h].result = LogoutAffectedRows(handlers[h].arg)]
    /\ UNCHANGED <<Usuarios, Categorias, Recetas, Autores_Receta, Ingredientes,
                   Receta_Ingrediente, Pasos, Valoraciones, Suscripciones,
                   auto, now, login, req, res, pool>>

\* POST /sesiones/logout, after the await.
LogoutAnswer(h) ==
    /\ handlers[h].op = "logout"
    /\ handlers[h].pc = "result"
    /\ handlers' = [handlers EXCEPT
          ![h].pc = "done",
          ![h].sent = @ \o Sends(IF handlers[h].result = 0 THEN <<404>> ELSE <<>>,
                                 <<200>>)]
    /\ UNCHANGED <<tables, now, login, req, res, pool>>

HandlerIds == 1 .. MaxHandler

NextLogouts ==
    \/ Tick
    \/ \E h \in HandlerIds, s \in SesionIds : LogoutRecv(h, s)
    \/ \E h \in HandlerIds : LogoutExec(h)
    \/ \E h \in HandlerIds : LogoutAnswer(h)

SpecLogouts == Init /\ [][NextLogouts]_vars

\* C26: of the logouts in flight together on one Active session, exactly
\* one answers 200 and every other answers 404, and the session's
\* fecha_cierre, once stamped, is not stamped again.
C26_ConcurrentLogout ==
    [][\A s \in DOMAIN Sesiones :
          LET on == {h \in HandlerIds : handlers'[h].op = "logout"
                                        /\ handlers'[h].arg = s}
              answered == {h \in on : handlers'[h].pc = "done"}
              ok == {h \in answered : handlers'[h].sent = <<200>>}
          IN /\ \A h \in answered : handlers'[h].sent \in {<<200>>, <<404>>}
             /\ Cardinality(ok) <= 1
             /\ (/\ Sesiones'[s].fecha_cierre # NullInt
                 /\ \A h \in on : handlers'[h].pc # "result")
                   => Cardinality(ok) = 1
             /\ Sesiones[s].fecha_cierre # NullInt => Sesiones'[s] = Sesiones[s]
      ]_vars

\* Two logouts of one session overlapped: the later one to reach the engine
\* has answered 404 while the earlier one, which closed the session, has
\* its result and has not answered yet.
C26_Witness ==
    \E h1, h2 \in HandlerIds :
        /\ handlers[h1].op = "logout" /\ handlers[h2].op = "logout"
        /\ handlers[h1].arg = handlers[h2].arg
        /\ handlers[h1].pc = "done" /\ handlers[h1].sent = <<404>>
        /\ handlers[h2].pc = "result" /\ handlers[h2].result = 1
        /\ Sesiones[handlers[h2].arg].fecha_cierre # NullInt

\* ------------------------------------------- one response per request
\* POST /sesiones/login, up to the first "await db.query".
LoginRecv(h, email, contrasena) ==
    /\ handlers[h].pc = "idle"
    /\ handlers' = [handlers EXCEPT ![h] =
          IF FalsyStr(email) \/ FalsyStr(contrasena)
          THEN [op |-> "login", pc |-> "done",
                arg |-> [email |-> email, contrasena |-> contrasena],
                result |-> NullInt, sent |-> <<400>>]
          ELSE [op |-> "login", pc |-> "query",
                arg |-> [email |-> email, contrasena |-> contrasena],
                result |-> NullInt, sent |-> <<>>]]
    /\ UNCHANGED <<tables, now, login, req, res, pool>>

\* The engine executes the login's SELECT: users[0], if any.
LoginSelect(h) ==
    /\ handlers[h].op = "login"
    /\ handlers[h].pc = "query"
    /\ LET users == SelectUsuariosByEmail(handlers[h].arg.email) IN
       handlers' = [handlers EXCEPT
          ![h].pc = "selected",
          ![h].result =
              IF users = {} THEN NullInt
              ELSE CHOOSE x \in users : \A y \in users : x <= y]
    /\ UNCHANGED <<tables, now, login, req, res, pool>>

\* POST /sesiones/login between its two queries: the length check, the
\* compare against the row read, and either a 401 or the INSERT's dispatch.
LoginContinue(h) ==
    /\ handlers[h].op = "login"
    /\ handlers[h].pc = "selected"
    /\ LET u == handlers[h].result
           early == IF u = NullInt THEN <<401>>
                    ELSE IF u \in DOMAIN Usuarios
                            /\ BcryptCompare(handlers[h].arg.contrasena,
                                             Usuarios[u].contrasena)
                    THEN <<>> ELSE <<401>>
       IN handlers' = [handlers EXCEPT
             ![h].pc = IF early # <<>> THEN "done" ELSE "insert",
             ![h].sent = @ \o early]
    /\ UNCHANGED <<tables, now, login, req, res, pool>>

\* The engine executes the login's INSERT, or refuses it for a user that
\* is gone.
LoginInsertExec(h) ==
    /\ handlers[h].op = "login"
    /\ handlers[h].pc = "insert"
    /\ auto.Sesiones <= MaxSesion
    /\ IF handlers[h].result \in DOMAIN Usuarios
       THEN /\ Sesiones' = InsertSesion(handlers[h].result)
            /\ auto' = [auto EXCEPT !.Sesiones = @ + 1]
            /\ handlers' = [handlers EXCEPT ![h].pc = "result"]
       ELSE /\ handlers' = [handlers EXCEPT ![h].pc = "catch"]
            /\ UNCHANGED <<Sesiones, auto>>
    /\ UNCHANGED <<Usuarios, Categorias, Recetas, Autores_Receta, Ingredientes,
                   Receta_Ingrediente, Pasos, Valoraciones, Suscripciones,
                   now, login, req, res, pool>>

\* POST /sesiones/login, after the INSERT.
LoginAnswer(h) ==
    /\ handlers[h].op = "login"
    /\ handlers[h].pc = "result"
    /\ handlers' = [handlers EXCEPT ![h].pc = "done", ![h].sent = @ \o <<201>>]
    /\ UNCHANGED <<tables, now, login, req, res, pool>>

\* POST /usuarios, up to "await db.query": bcrypt.hash rejects a missing
\* password, which takes the handler to its catch.
UsuariosPostRecv(h, nombre, email, contrasena, tipo_usuario) ==
    /\ handlers[h].pc = "idle"
    /\ handlers' = [handlers EXCEPT ![h] =
          [op |-> "usuarios.post",
           pc |-> IF contrasena = NULL THEN "catch" ELSE "query",
           arg |-> [nombre |-> nombre, email |-> email,
                    contrasena |-> IF contrasena = NULL THEN NULL
                                   ELSE PostContrasena(contrasena),
                    tipo_usuario |-> tipo_usuario],
           result |-> NullInt, sent |-> <<>>]]
    /\ UNCHANGED <<tables, now, login, req, res, pool>>

\* The engine executes the INSERT INTO Usuarios, or refuses the row.
UsuariosPostExec(h) ==
    /\ handlers[h].op = "usuarios.post"
    /\ handlers[h].pc = "query"
    /\ auto.Usuarios <= MaxUsuario
    /\ LET a == handlers[h].arg IN
       IF UsuariosError(auto.Usuarios, a.nombre, a.email, a.contrasena,
                        a.tipo_usuario) # ""
       THEN /\ handlers' = [handlers EXCEPT ![h].pc = "catch"]
            /\ UNCHANGED <<Usuarios, auto>>
       ELSE /\ Usuarios' = Usuarios @@ (auto.Usuarios :> a)
            /\ auto' = [auto EXCEPT !.Usuarios = @ + 1]
            /\ handlers' = [handlers EXCEPT ![h].pc = "result"]
    /\ UNCHANGED <<Sesiones, Categorias, Recetas, Autores_Receta, Ingredientes,
                   Receta_Ingrediente, Pasos, Valoraciones, Suscripciones,
                   now, login, req, res, pool>>

\* POST /usuarios, after the INSERT.
UsuariosPostAnswer(h) ==
    /\ handlers[h].op = "usuarios.post"
    /\ handlers[h].pc = "result"
    /\ handlers' = [handlers EXCEPT ![h].pc = "done", ![h].sent = @ \o <<201>>]
    /\ UNCHANGED <<tables, now, login, req, res, pool>>

\* GET /recetas/:id, up to "await db.query".
RecetasGetByIdRecv(h, id) ==
    /\ handlers[h].pc = "idle"
    /\ handlers' = [handlers EXCEPT ![h] =
          [op |-> "recetas.getById", pc |-> "query", arg |-> id,
           result |-> NullInt, sent |-> <<>>]]
    /\ UNCHANGED <<tables, now, login, req, res, pool>>

\* The engine executes the joined SELECT: results.length.
RecetasGetByIdExec(h) ==
    /\ handlers[h].op = "recetas.getById"
    /\ handlers[h].pc = "query"
    /\ handlers' = [handlers EXCEPT
          ![h].pc = "result",
          ![h].result = IF handlers[h].arg \in RecetasJoined THEN 1 ELSE 0]
    /\ UNCHANGED <<tables, now, login, req, res, pool>>

\* GET /recetas/:id, after the await.
RecetasGetByIdAnswer(h) ==
    /\ handlers[h].op = "recetas.getById"
    /\ handlers[h].pc = "result"
    /\ handlers' = [handlers EXCEPT
          ![h].pc = "done",
          ![h].sent = @ \o Sends(IF handlers[h].result = 0 THEN <<404>> ELSE <<>>,
                                 <<200>>)]
    /\ UNCHANGED <<tables, now, login, req, res, pool>>

\* An awaited query rejects for a reason of the engine's own (the
\* connection is lost, the server is down).
QueryFails(h) ==
    /\ handlers[h].pc \in {"query", "insert"}
    /\ handlers' = [handlers EXCEPT ![h].pc = "catch"]
    /\ UNCHANGED <<tables, now, login, req, res, pool>>

\* catch (err) { res.status(500).json({ error: err.message }) }
HandlerCatch(h) ==
    /\ handlers[h].pc = "catch"
    /\ handlers' = [handlers EXCEPT ![h].pc = "done", ![h].sent = @ \o <<500>>]
    /\ UNCHANGED <<tables, now, login, req, res, pool>>

\* The steps the event loop runs once a handler's await has settled.
HandlerRuns(h) ==
    \/ LoginContinue(h)
    \/ LoginAnswer(h)
    \/ UsuariosPostAnswer(h)
    \/ RecetasGetByIdAnswer(h)
    \/ LogoutAnswer(h)
    \/ HandlerCatch(h)

\* Logins: accepted, wrong password, unknown email, missing email.
LoginsIn ==
    {<<"melani@example.com", "password123">>, <<"melani@example.com", "secreta">>,
     <<"nuevo@example.com", "secreta">>, <<"", "secreta">>}

\* Users to create: accepted, email taken, password missing.
AltasIn ==
    {<<"nuevo@example.com", "secreta">>, <<"melani@example.com", "secreta">>,
     <<"nuevo@example.com", NULL>>}

NextHandlers ==
    \/ \E h \in HandlerIds :
          \E in \in LoginsIn : LoginRecv(h, in[1], in[2])
    \/ \E h \in HandlerIds : LoginSelect(h)
    \/ \E h \in HandlerIds : LoginContinue(h)
    \/ \E h \in HandlerIds : LoginInsertExec(h)
    \/ \E h \in HandlerIds : LoginAnswer(h)
    \/ \E h \in HandlerIds :
          \E in \in AltasIn : UsuariosPostRecv(h, "Nuevo", in[1], in[2], "publico")
    \/ \E h \in HandlerIds : UsuariosPostExec(h)
    \/ \E h \in HandlerIds : UsuariosPostAnswer(h)
    \/ \E h \in HandlerIds, id \in {1, MaxReceta + 1} : RecetasGetByIdRecv(h, id)
    \/ \E h \in HandlerIds : RecetasGetByIdExec(h)
    \/ \E h \in HandlerIds : RecetasGetByIdAnswer(h)
    \/ \E h \in HandlerIds, s \in {0, 1} : LogoutRecv(h, s)
    \/ \E h \in HandlerIds : LogoutExec(h)
    \/ \E h \in HandlerIds : LogoutAnswer(h)
    \/ \E h \in HandlerIds : QueryFails(h)
    \/ \E h \in HandlerIds : HandlerCatch(h)

\* The event loop runs every continuation whose await has settled; nothing
\* obliges the engine to settle a query.
SpecHandlers ==
    Init /\ [][NextHandlers]_vars /\ \A h \in HandlerIds : WF_vars(HandlerRuns(h))

\* C29: a handler never sends a second response, a finished handler has
\* sent exactly one, and a handler whose query the engine has answered or
\* failed goes on to answer its request (or, in the login, to its next
\* query).
C29_OneResponse ==
    /\ [](\A h \in HandlerIds :
             /\ Len(handlers[h].sent) <= 1
             /\ (handlers[h].pc = "done") = (Len(handlers[h].sent) = 1))
    /\ \A h \in HandlerIds :
          (handlers[h].pc \in {"result", "catch"}) ~> (handlers[h].pc = "done")
    /\ \A h \in HandlerIds :
          (handlers[h].pc = "selected") ~> (handlers[h].pc \in {"done", "insert"})

\* Two requests are answered, one on a validation or not-found path and
\* one on the storage-failure path.
C29_Witness ==
    \E h1, h2 \in HandlerIds :
        /\ handlers[h1].pc = "done" /\ handlers[h2].pc = "done"
        /\ handlers[h1].sent \in {<<400>>, <<404>>}
        /\ handlers[h2].sent = <<500>>

====
